---- MODULE Spec2Model ----
(***************************************************************************)
(* Model of the recipe-url-ingredients endpoint of chomp-website:          *)
(* the Express route  logging -> Clerk auth -> rate limiter -> handler ->  *)
(* error middleware, the in-memory rate-limit store with its clock and its *)
(* periodic cleanup, and the handler's stages (URL validation, fetch,      *)
(* content extraction, Anthropic call, response parsing, normalization).   *)
(*                                                                         *)
(* A request occupies a slot.  Every `await` of the source is a point      *)
(* where the request is suspended and other requests, the clock and the    *)
(* cleanup timer may run; the code between two awaits is one action.       *)
(***************************************************************************)
EXTENDS Integers, Sequences, FiniteSets, TLC

\* ------------------------------------------------------------------ bounds
NumSlots     == 2      \* requests in flight at once
MaxArrivals  == 3      \* requests received in one behaviour
MaxTicks     == 2      \* clock advances in one behaviour
MaxLimit     == 2      \* largest configured maxRequests explored
MaxIngredients == 2    \* largest ingredient list returned by the AI
PipelineSlots == 1     \* requests in flight at once when the whole pipeline is explored

Slots == 1..NumSlots

\* ------------------------------------------------------- identities, keys
Users  == {"u1", "u2"}
NoUser == "none"                       \* getAuth(req) gave no userId

\* rateLimit.ts:97   const key = `rate_limit:${userId}`
RateKey(userId) == <<"rate_limit:", userId>>
Keys == {RateKey(u) : u \in Users}

NoEntry == 0                           \* entries.get(key) === undefined

\* Clock advances offered to the environment (milliseconds).
TickSteps == {1, 1000, 59999, 60000}

\* ----------------------------------------------------------- request body
\* Classes of req.body.url seen by the schema, the validator and the fetch.
UrlInputs == {"bad_json", "missing", "empty", "malformed", "ftp", "file",
              "public", "localhost", "private_ip", "private_dns"}

\* new URL(value) succeeds
Parseable(u) == u \in {"ftp", "file", "public", "localhost", "private_ip", "private_dns"}

\* url.protocol
Protocol(u) ==
    CASE u = "ftp"  -> "ftp:"
      [] u = "file" -> "file:"
      [] OTHER      -> "http:"

\* the host of the URL denotes localhost, a private literal or a name that
\* resolves to a private address
PrivateTarget(u) == u \in {"localhost", "private_ip", "private_dns"}

VARIABLES
    now,          \* Date.now(), milliseconds
    ticks,        \* number of clock advances so far
    arrivals,     \* number of requests received so far
    maxRequests,  \* config.maxRequests of the rate limiter
    entries,      \* the store's Map: key -> reference of its RateLimitEntry
    heap,         \* the RateLimitEntry objects, by reference
    win,          \* per identity: the fixed window of section 4.6, as counted by an observer
    req,          \* per slot: the request, its position and its response
    call          \* a component called on its own: its input, its position, its result

vars == <<now, ticks, arrivals, maxRequests, entries, heap, win, req, call>>


\* ---------------------------------------------------------------- helpers
\* Math.ceil(a / b) for b > 0, also for negative a
Ceil(a, b) == -((-a) \div b)

\* Math.max(a, b)
Max(a, b) == IF a >= b THEN a ELSE b

NoHeader == -1000000                   \* a header that was never set
NoWindow == [start |-> -1, n |-> 0]    \* the observer saw no request of the identity yet
NoCall == [op |-> "none"]              \* no component is called on its own

\* ------------------------------------------------- status and error codes
\* types.ts:33-42
ErrorCodes == {"invalid_url", "unsupported_content", "unauthorized", "not_found",
               "fetch_timeout", "content_too_large", "parse_failed", "rate_limited",
               "server_error"}

\* the table with fetch_timeout answered 504
errorCodeToStatusCodeGateway(code) ==
    CASE code = "invalid_url"         -> 400
      [] code = "unsupported_content" -> 400
      [] code = "unauthorized"        -> 401
      [] code = "not_found"           -> 404
      [] code = "fetch_timeout"       -> 504
      [] code = "content_too_large"   -> 413
      [] code = "parse_failed"        -> 422
      [] code = "rate_limited"        -> 429
      [] code = "server_error"        -> 500

\* types.ts:61-71
errorCodeToStatusCode(code) ==
    CASE code = "invalid_url"         -> 400
      [] code = "unsupported_content" -> 400
      [] code = "unauthorized"        -> 401
      [] code = "not_found"           -> 404
      [] code = "fetch_timeout"       -> 408
      [] code = "content_too_large"   -> 413
      [] code = "parse_failed"        -> 422
      [] code = "rate_limited"        -> 429
      [] code = "server_error"        -> 500

\* No response sent yet.
NoResponse == [status |-> 0, code |-> "", by |-> "", ingredients |-> 0]

\* res.status(status).json({error: {code, message}}), sent by component `by`
ErrorResponse(status, code, by) ==
    [status |-> status, code |-> code, by |-> by, ingredients |-> 0]

\* part_001:40-45 and part_001:80   res.status(401).json(buildUnauthorizedResponse())
buildUnauthorizedResponse == ErrorResponse(401, "unauthorized", "auth")

\* rateLimit.ts:72-77 and rateLimit.ts:111   res.status(429).json(buildRateLimitedResponse())
buildRateLimitedResponse == ErrorResponse(429, "rate_limited", "rate_limit")

\* Nothing thrown.
NoError == [kind |-> "none", code |-> "", statusCode |-> 0]

\* types.ts:78-93   new RecipeUrlIngredientsError(code, message)
RecipeUrlIngredientsError(code) ==
    [kind |-> "domain", code |-> code, statusCode |-> errorCodeToStatusCode(code)]

\* any other Error reaching the error middleware
UnknownError == [kind |-> "unknown", code |-> "", statusCode |-> 0]

\* types.ts:125-151   recipeUrlIngredientsErrorHandler
recipeUrlIngredientsErrorHandler(err) ==
    IF err.kind = "domain"
    THEN ErrorResponse(err.statusCode, err.code, "error_middleware")
    ELSE ErrorResponse(500, "server_error", "error_middleware")

\* ------------------------------------------------------- rate-limit store
\* rateLimit.ts:36-53   createMemoryStore().increment
\* Returns the table, the heap of entry objects and the reference of the
\* entry it returns (the object itself, not a copy).
increment(ents, hp, key, t) ==
    LET existing == ents[key] IN
    IF existing = NoEntry \/ hp[existing].resetAt <= t
    THEN [entries |-> [ents EXCEPT ![key] = Len(hp) + 1],
          heap    |-> Append(hp, [count |-> 1, resetAt |-> t + 60 * 1000]),
          ref     |-> Len(hp) + 1]
    ELSE [entries |-> ents,
          heap    |-> [hp EXCEPT ![existing].count = @ + 1],
          ref     |-> existing]

\* rateLimit.ts:22-32   the cleanup callback of setInterval
cleanup(ents, hp, t) ==
    [k \in Keys |-> IF ents[k] # NoEntry /\ hp[ents[k]].resetAt <= t
                    THEN NoEntry ELSE ents[k]]

\* rateLimit.ts:109   if (count > maxRequests)
overLimit(count, limit) == count > limit

\* rateLimit.ts:102   Math.ceil((resetAt - Date.now()) / 1000)
resetSeconds(resetAt, t) == Ceil(resetAt - t, 1000)

\* The fixed window of section 4.6 as an observer of the requests counts it:
\* a request at time t opens a window when the identity has none or the last
\* one is over, and is request number n of the window otherwise.
Observe(w, t) ==
    IF w.start < 0 \/ t >= w.start + 60 * 1000
    THEN [start |-> t, n |-> 1]
    ELSE [start |-> w.start, n |-> w.n + 1]

\* ---------------------------------------------------------------- request
IdleRequest ==
    [pc |-> "idle", userId |-> NoUser, url |-> "missing",
     \* rate limiter
     held |-> NoEntry,          \* the entry returned by store.increment
     gate |-> "none",           \* what the rate limiter decided
     passed |-> 0,              \* calls of next() by the rate limiter
     count |-> 0,               \* the count the middleware read
     limit |-> NoHeader, remaining |-> NoHeader, reset |-> NoHeader,
     retryAfter |-> NoHeader,   \* the response headers
     \* what an observer records when the request is counted
     nth |-> 0, elapsed |-> FALSE, incAt |-> 0, first |-> 0,
     \* handler
     stages |-> << >>,          \* the stages started, in order
     results |-> << >>,         \* how each of them ended: "ok" or its failure
     fetches |-> 0, fetched |-> "", invocations |-> 0, calls |-> 0, retriesLeft |-> 0,
     extraction |-> -1,         \* ingredients of the validated extraction, -1: none
     normalized |-> FALSE,
     increments |-> 0,          \* calls of store.increment for the request
     sent |-> 0,                \* calls of res.json for the request
     thrown |-> NoError, res |-> NoResponse]

Init ==
    /\ now = 0
    /\ ticks = 0
    /\ arrivals = 0
    /\ maxRequests \in 1..MaxLimit
    /\ entries = [k \in Keys |-> NoEntry]
    /\ heap = << >>
    /\ win = [u \in Users |-> NoWindow]
    /\ req = [r \in Slots |-> IdleRequest]
    /\ call = NoCall

\* The clock advances.
Tick(d) ==
    /\ ticks < MaxTicks
    /\ now' = now + d
    /\ ticks' = ticks + 1
    /\ UNCHANGED <<arrivals, maxRequests, entries, heap, win, req, call>>

\* rateLimit.ts:22-32   the periodic cleanup runs
Sweep ==
    /\ entries' = cleanup(entries, heap, now)
    /\ entries' # entries
    /\ UNCHANGED <<now, ticks, arrivals, maxRequests, heap, win, req, call>>

\* index.ts:20 express.json(), part_003:104-113 createLoggingMiddleware, and
\* clerkMiddleware(): a request arrives in a free slot; `userId` is what
\* getAuth(req) will return.  A body that is not JSON goes from express.json()
\* straight to the error middleware (index.ts:86).  The request takes the
\* first slot that holds no request in flight.
Arrive(r, userId, url) ==
    /\ req[r].pc \in {"idle", "done"}
    /\ \A s \in 1..(r - 1) : req[s].pc \notin {"idle", "done"}
    /\ arrivals < MaxArrivals
    /\ arrivals' = arrivals + 1
    /\ req' = [req EXCEPT ![r] =
                 IF url = "bad_json"
                 THEN [IdleRequest EXCEPT !.pc = "thrown", !.userId = userId, !.url = url,
                                          !.thrown = UnknownError]
                 ELSE [IdleRequest EXCEPT !.pc = "auth", !.userId = userId, !.url = url]]
    /\ UNCHANGED <<now, ticks, maxRequests, entries, heap, win, call>>

\* part_001:76-95   the handler after clerkMiddleware()
Auth(r) ==
    /\ req[r].pc = "auth"
    /\ req' = [req EXCEPT ![r] =
                 IF req[r].userId = NoUser
                 THEN [@ EXCEPT !.pc = "done", !.res = buildUnauthorizedResponse,
                                !.sent = @ + 1]
                 ELSE [@ EXCEPT !.pc = "rate_limit"]]
    /\ UNCHANGED <<now, ticks, arrivals, maxRequests, entries, heap, win, call>>

\* rateLimit.ts:88-100   the middleware up to `await store.increment(key)`.
\* Without a userId it calls next() and counts nothing; otherwise increment
\* runs to its return before the middleware is suspended.
RateLimitCall(r) ==
    /\ req[r].pc = "rate_limit"
    /\ IF req[r].userId = NoUser
       THEN /\ req' = [req EXCEPT ![r].pc = "handler", ![r].passed = @ + 1]
            /\ UNCHANGED <<entries, heap, win>>
       ELSE LET u   == req[r].userId
                out == increment(entries, heap, RateKey(u), now)
                w   == Observe(win[u], now)
            IN /\ entries' = out.entries
               /\ heap' = out.heap
               /\ win' = [win EXCEPT ![u] = w]
               /\ req' = [req EXCEPT ![r] =
                     [@ EXCEPT !.pc = "rate_limit_await", !.held = out.ref,
                               !.increments = @ + 1,
                               !.stages = Append(@, "rate_limit"),
                               !.nth = w.n, !.incAt = now,
                               !.elapsed = (win[u].start >= 0 /\ w.n = 1),
                               !.first = out.heap[out.ref].count]]
    /\ UNCHANGED <<now, ticks, arrivals, maxRequests, call>>

\* rateLimit.ts:100-115   the middleware resumes: it reads count and resetAt
\* from the entry it was given, sets the headers and answers 429 or calls next()
RateLimitResume(r) ==
    /\ req[r].pc = "rate_limit_await"
    /\ LET count   == heap[req[r].held].count
           resetAt == heap[req[r].held].resetAt
           secs    == resetSeconds(resetAt, now)
           denied  == overLimit(count, maxRequests)
       IN req' = [req EXCEPT ![r] =
                    [@ EXCEPT !.count = count,
                              !.limit = maxRequests,
                              !.remaining = Max(0, maxRequests - count),
                              !.reset = secs,
                              !.retryAfter = IF denied THEN secs ELSE NoHeader,
                              !.gate = IF denied THEN "denied" ELSE "allowed",
                              !.results = Append(@, IF denied THEN "rate_limited" ELSE "ok"),
                              !.res = IF denied THEN buildRateLimitedResponse ELSE @,
                              !.sent = IF denied THEN @ + 1 ELSE @,
                              !.passed = IF denied THEN @ ELSE @ + 1,
                              !.pc = IF denied THEN "done" ELSE "handler"]]
    /\ UNCHANGED <<now, ticks, arrivals, maxRequests, entries, heap, win, call>>

\* the store error answered as an exceeded limit
onStoreErrorFailClosed(rq) ==
    [rq EXCEPT !.pc = "done", !.res = buildRateLimitedResponse, !.sent = @ + 1,
               !.results = Append(@, "rate_limited")]

\* rateLimit.ts:116-120   catch { next() }
onStoreError(rq) ==
    [rq EXCEPT !.pc = "handler", !.passed = @ + 1, !.results = Append(@, "ok")]

\* rateLimit.ts:99-100   a configured store (RateLimitConfig.store) whose
\* increment throws or returns a promise that rejects: the middleware is
\* suspended on the await, or already in its catch, having read no entry
RateLimitReject(r) ==
    /\ req[r].pc = "rate_limit"
    /\ req[r].userId # NoUser
    /\ req' = [req EXCEPT ![r] =
                 [@ EXCEPT !.pc = "rate_limit_rejected", !.gate = "store_failed",
                           !.stages = Append(@, "rate_limit")]]
    /\ UNCHANGED <<now, ticks, arrivals, maxRequests, entries, heap, win, call>>

\* rateLimit.ts:116-120   the catch block runs
RateLimitCatch(r) ==
    /\ req[r].pc = "rate_limit_rejected"
    /\ req' = [req EXCEPT ![r] = onStoreError(@)]
    /\ UNCHANGED <<now, ticks, arrivals, maxRequests, entries, heap, win, call>>

\* ---------------------------------------------------------------- handler
\* The stages of the pipeline, in the order of section 4.7.
StageOrder == <<"rate_limit", "url_validation", "fetch", "content_extraction",
                "ai_call", "response_validation", "zero_check", "normalization">>

\* schema.ts:4-11   isHttpUrl
isHttpUrl(u) == Parseable(u) /\ Protocol(u) \in {"http:", "https:"}

\* schema.ts:13-21, 71-73   parseRecipeUrlIngredientsRequest: does it return?
\* (url is a string, non-empty after trim, and passes isHttpUrl)
parseRecipeUrlIngredientsRequest(u) ==
    /\ u \notin {"missing", "empty"}
    /\ isHttpUrl(u)

\* part_002:15-28   validateUrl, the one the handler imports (./urlValidation.js)
validateUrl(u) ==
    IF ~Parseable(u) THEN [valid |-> FALSE, reason |-> "Invalid URL format."]
    ELSE IF Protocol(u) # "http:" /\ Protocol(u) # "https:"
    THEN [valid |-> FALSE, reason |-> "URL must use http or https protocol."]
    ELSE [valid |-> TRUE, reason |-> ""]

\* part_008:14-20   HtmlFetchErrorCode, and "ok" for HtmlFetchSuccess
FetchOutcomes == {"ok", "fetch_timeout", "content_too_large", "ssrf_blocked",
                  "too_many_redirects", "fetch_failed", "invalid_content_type"}

\* part_008:44-45, 62-63, 156-161   the request-filtering agents refuse a
\* private target; handleFetchError reports the refusal as ssrf_blocked when
\* its message is recognised and as fetch_failed otherwise.
FetchOutcomesFor(u) ==
    IF PrivateTarget(u) THEN {"ssrf_blocked", "fetch_failed", "fetch_timeout"}
    ELSE FetchOutcomes

\* the test of the fetch result left out
fetchOkAlways(outcome) == TRUE

\* part_005:187   if (!fetchResult.ok)
fetchOk(outcome) == outcome = "ok"

\* contentExtract.ts:11 ContentExtractErrorCode, and "ok" for ContentExtractSuccess
ContentOutcomes == {"ok", "parse_failed", "no_content"}

\* too_many_redirects left to the default branch
mapFetchErrorCodeNoRedirects(code) ==
    CASE code = "fetch_timeout"        -> "fetch_timeout"
      [] code = "content_too_large"    -> "content_too_large"
      [] code = "ssrf_blocked"         -> "invalid_url"
      [] code = "invalid_content_type" -> "unsupported_content"
      [] OTHER                         -> "server_error"

\* ssrf_blocked and fetch_failed both reported as invalid_url
mapFetchErrorCodeAllInvalid(code) ==
    CASE code = "fetch_timeout"        -> "fetch_timeout"
      [] code = "content_too_large"    -> "content_too_large"
      [] code = "too_many_redirects"   -> "fetch_timeout"
      [] code = "invalid_content_type" -> "unsupported_content"
      [] OTHER                         -> "invalid_url"

\* part_005:37-53
mapFetchErrorCode(code) ==
    CASE code = "fetch_timeout"        -> "fetch_timeout"
      [] code = "content_too_large"    -> "content_too_large"
      [] code = "ssrf_blocked"         -> "invalid_url"
      [] code = "too_many_redirects"   -> "fetch_timeout"
      [] code = "invalid_content_type" -> "unsupported_content"
      [] OTHER                         -> "server_error"

\* part_005:58-66
mapContentErrorCode(code) ==
    CASE code \in {"parse_failed", "no_content"} -> "unsupported_content"
      [] OTHER                                   -> "server_error"

\* part_005:71-84
mapAnthropicErrorCode(code) ==
    CASE code = "rate_limit_error" -> "rate_limited"
      [] code = "timeout_error"    -> "fetch_timeout"
      [] OTHER                     -> "server_error"

\* anthropicClient.ts:48
DEFAULT_MAX_RETRIES == 2

\* What one HTTP call to the Anthropic API ends with: a message with or
\* without a text block, an error status, a connection error, a timeout of
\* the SDK, or an error that is no Anthropic.APIError.
AiReplies == {"text", "no_text", "400", "401", "408", "429", "500",
              "connection_error", "timeout", "non_api"}

\* one retry more than configured
sdkRetriesOneMore(reply, retriesLeft) ==
    /\ reply \in {"408", "429", "500", "connection_error", "timeout"}
    /\ retriesLeft >= 0

\* anthropicClient.ts:54-58   new Anthropic({ apiKey, timeout, maxRetries }):
\* the SDK sends the call again after a connection error, a timeout, 408, 429
\* and 5xx while retries are left.
sdkRetries(reply, retriesLeft) ==
    /\ reply \in {"408", "429", "500", "connection_error", "timeout"}
    /\ retriesLeft > 0

\* anthropicClient.ts:165-213   mapAnthropicApiError; hasTimeout is
\* error.message?.toLowerCase().includes('timeout')
mapAnthropicApiError(reply, hasTimeout) ==
    IF reply = "401" THEN "authentication_error"
    ELSE IF reply = "429" THEN "rate_limit_error"
    ELSE IF reply = "408" \/ hasTimeout THEN "timeout_error"
    ELSE IF reply = "400" THEN "invalid_request_error"
    ELSE "api_error"

\* anthropicClient.ts:60-117   extractIngredients, once the SDK has given up
\* or succeeded: "ok" or the code of the AnthropicClientError it throws
extractIngredients(reply, hasTimeout) ==
    CASE reply = "text"    -> "ok"
      [] reply = "no_text" -> "api_error"
      [] reply = "non_api" -> "unknown_error"
      [] OTHER             -> mapAnthropicApiError(reply, hasTimeout)

\* The text returned by the AI, as parseAIResponse classifies it: empty,
\* not JSON, JSON violating the schema, or a valid extraction with n ingredients.
AiContents == {[kind |-> k, n |-> 0] : k \in {"empty", "not_json", "bad_schema"}}
              \cup {[kind |-> "valid", n |-> n] : n \in 0..MaxIngredients}

\* part_004:70-116   parseAIResponse: "ok" or the code of the AIExtractError
parseAIResponse(content) ==
    CASE content.kind = "empty"      -> "empty_response"
      [] content.kind = "not_json"   -> "json_parse_error"
      [] content.kind = "bad_schema" -> "schema_validation_error"
      [] OTHER                       -> "ok"

\* the check for an empty ingredient list left out
hasIngredientsAlways(extraction) == TRUE

\* part_004:138-140
hasIngredients(extraction) == extraction.n > 0

\* normalizeIngredients.ts:189-199   normalizeExtraction: the number of
\* ingredients of the response (extraction.ingredients.map(normalizeIngredient))
normalizeExtraction(extraction) == extraction.n

\* A stage that started and ended at once, with its result.
Ran(rq, stage, result) ==
    [rq EXCEPT !.stages = Append(@, stage), !.results = Append(@, result)]

\* A stage that was started before ends.
Ended(rq, result) == [rq EXCEPT !.results = Append(@, result)]

\* a sendError that logs and comes back: the handler returns after it
\* without a response
sendErrorLogOnly(rq, errorCode) == [rq EXCEPT !.pc = "done"]

\* part_005:106-136   sendError: log, then throw a RecipeUrlIngredientsError
\* to the error middleware (through asyncHandler, types.ts:164-170)
sendError(rq, errorCode) ==
    [rq EXCEPT !.pc = "thrown", !.thrown = RecipeUrlIngredientsError(errorCode)]

\* part_005:142-184   the handler up to `await fetchHtml(url)`
HandlerStart(r) ==
    /\ req[r].pc = "handler"
    /\ LET u == req[r].url
       IN req' = [req EXCEPT ![r] =
            IF ~parseRecipeUrlIngredientsRequest(u)
            THEN sendError(Ran(@, "url_validation", "bad_request"), "invalid_url")
            ELSE IF ~validateUrl(u).valid
            THEN sendError(Ran(@, "url_validation", validateUrl(u).reason), "invalid_url")
            ELSE [Ran(@, "url_validation", "ok") EXCEPT
                        !.pc = "fetching", !.stages = Append(@, "fetch"),
                        !.fetches = @ + 1, !.fetched = u]]
    /\ UNCHANGED <<now, ticks, arrivals, maxRequests, entries, heap, win, call>>

\* part_005:184-207   fetchHtml returns `outcome`; extractContent gives
\* `content`; then the handler up to `await client.extractIngredients(...)`,
\* whose first HTTP call the SDK sends
FetchReturn(r, outcome, content) ==
    /\ req[r].pc = "fetching"
    /\ outcome \in FetchOutcomesFor(req[r].url)
    /\ LET rq == Ended(req[r], outcome)
       IN req' = [req EXCEPT ![r] =
            IF ~fetchOk(outcome)
            THEN sendError(rq, mapFetchErrorCode(outcome))
            ELSE IF content # "ok"
            THEN sendError(Ran(rq, "content_extraction", content),
                           mapContentErrorCode(content))
            ELSE [Ran(rq, "content_extraction", "ok") EXCEPT
                        !.pc = "ai_wait", !.stages = Append(@, "ai_call"),
                        !.invocations = @ + 1, !.calls = @ + 1,
                        !.retriesLeft = DEFAULT_MAX_RETRIES]]
    /\ UNCHANGED <<now, ticks, arrivals, maxRequests, entries, heap, win, call>>

\* anthropicClient.ts:54-58, 68-77   the call failed in a way the SDK retries:
\* it sends the call again
AiRetry(r, reply) ==
    /\ req[r].pc = "ai_wait"
    /\ sdkRetries(reply, req[r].retriesLeft)
    /\ req' = [req EXCEPT ![r].calls = @ + 1, ![r].retriesLeft = @ - 1]
    /\ UNCHANGED <<now, ticks, arrivals, maxRequests, entries, heap, win, call>>

\* part_005:207-263   client.extractIngredients settles; the handler parses
\* the answer, checks for ingredients, normalizes and responds
AiReturn(r, reply, hasTimeout, content) ==
    /\ req[r].pc = "ai_wait"
    /\ ~sdkRetries(reply, req[r].retriesLeft)
    /\ LET ai  == extractIngredients(reply, hasTimeout)
           rq1 == Ended(req[r], ai)
           rq2 == [Ran(rq1, "response_validation", parseAIResponse(content)) EXCEPT
                      !.extraction = IF parseAIResponse(content) = "ok" THEN content.n ELSE -1]
       IN req' = [req EXCEPT ![r] =
            IF ai # "ok"
            THEN sendError(rq1, mapAnthropicErrorCode(ai))
            ELSE IF parseAIResponse(content) # "ok"
            THEN sendError(rq2, "parse_failed")
            ELSE IF ~hasIngredients(content)
            THEN sendError(Ran(rq2, "zero_check", "no_ingredients"), "unsupported_content")
            ELSE [Ran(Ran(rq2, "zero_check", "ok"), "normalization", "ok") EXCEPT
                     !.pc = "done", !.normalized = TRUE, !.sent = @ + 1,
                     !.res = [status |-> 200, code |-> "", by |-> "handler",
                              ingredients |-> normalizeExtraction(content)]]]
    /\ UNCHANGED <<now, ticks, arrivals, maxRequests, entries, heap, win, call>>

\* index.ts:86, types.ts:125-151   the error middleware answers
ErrorMiddleware(r) ==
    /\ req[r].pc = "thrown"
    /\ req' = [req EXCEPT ![r].pc = "done", ![r].sent = @ + 1,
                          ![r].res = recipeUrlIngredientsErrorHandler(req[r].thrown)]
    /\ UNCHANGED <<now, ticks, arrivals, maxRequests, entries, heap, win, call>>

\* ---------------------------------------------------------- specification
\* The whole route at one instant: every request body, every outcome of the
\* fetch, of the content extraction and of the Anthropic call, for requests
\* that follow one another in the first PipelineSlots slots.
Next ==
    \/ \E r \in 1..PipelineSlots, u \in {"u1", NoUser}, url \in UrlInputs : Arrive(r, u, url)
    \/ \E r \in Slots : Auth(r)
    \/ \E r \in Slots : RateLimitCall(r)
    \/ \E r \in Slots : RateLimitResume(r)
    \/ \E r \in Slots : HandlerStart(r)
    \/ \E r \in Slots, o \in FetchOutcomes, c \in ContentOutcomes : FetchReturn(r, o, c)
    \/ \E r \in Slots, a \in AiReplies : AiRetry(r, a)
    \/ \E r \in Slots, a \in AiReplies, t \in BOOLEAN, c \in AiContents : AiReturn(r, a, t, c)
    \/ \E r \in Slots : ErrorMiddleware(r)

Spec == Init /\ [][Next]_vars

\* A middleware is suspended on `await store.increment(key)`.
Suspended == \E r \in Slots : req[r].pc = "rate_limit_await"

\* The rate limiter over time: the clock advances, the cleanup timer fires,
\* requests of several identities arrive and overlap.  The requests carry a
\* body without url, so that the handler behind the limiter ends at once.
\* While a middleware is suspended on the in-memory store the clock moves by
\* one millisecond at most: the promise of increment is already resolved and
\* the middleware resumes in the same turn of the event loop.
NextRate ==
    \/ \E d \in TickSteps : (Suspended => d = 1) /\ Tick(d)
    \/ Sweep
    \/ \E r \in Slots, u \in Users \cup {NoUser} : Arrive(r, u, "missing")
    \/ \E r \in Slots : Auth(r)
    \/ \E r \in Slots : RateLimitCall(r)
    \/ \E r \in Slots : RateLimitResume(r)
    \/ \E r \in Slots : HandlerStart(r)
    \/ \E r \in Slots : ErrorMiddleware(r)

SpecRate == Init /\ [][NextRate]_vars

\* The rate limiter in front of a store that can fail: each call of
\* increment either goes through or fails.
NextStore ==
    \/ \E r \in Slots, u \in Users : Arrive(r, u, "missing")
    \/ \E r \in Slots : Auth(r)
    \/ \E r \in Slots : RateLimitCall(r)
    \/ \E r \in Slots : RateLimitResume(r)
    \/ \E r \in Slots : RateLimitReject(r)
    \/ \E r \in Slots : RateLimitCatch(r)
    \/ \E r \in Slots : HandlerStart(r)
    \/ \E r \in Slots : ErrorMiddleware(r)

SpecStore == Init /\ [][NextStore]_vars

\* ------------------------------------------------------------ rate limiter
\* The request in slot r was counted by the limiter and the limiter decided.
Decided(r) == req[r].gate # "none"

\* C1: inside one window of an identity, with limit L = maxRequests, the
\* requests number 1..L pass the limiter and every request number L+1 or
\* higher is answered 429 rate_limited, for any sequence of requests and
\* whatever the requests of other identities do in between.
C1_LimitPerWindow ==
    \A r \in Slots :
        Decided(r) =>
            /\ req[r].nth > maxRequests =>
                  /\ req[r].gate = "denied"
                  /\ req[r].res.status = 429
                  /\ req[r].res.code = "rate_limited"
            /\ req[r].nth <= maxRequests => req[r].gate = "allowed"

\* C2: once the window of an identity is over, its next request opens a new
\* window with count 1 that ends one window length later, and is allowed,
\* whatever was counted in the old window and whether or not the cleanup
\* removed it.
C2_FreshWindowAfterExpiry ==
    \A r \in Slots :
        (req[r].held # NoEntry /\ req[r].elapsed) =>
            /\ req[r].first = 1
            /\ heap[req[r].held].resetAt = req[r].incAt + 60 * 1000
            /\ Decided(r) => req[r].gate = "allowed"

\* C3: the Retry-After of a 429 of the limiter is a whole number of seconds
\* that is > 0 and <= 60, also when the clock advances between the store's
\* increment and the computation of the header.
C3_RetryAfterInRange ==
    \A r \in Slots :
        req[r].gate = "denied" =>
            /\ req[r].retryAfter > 0
            /\ req[r].retryAfter <= 60

\* C4: requests of one identity that are in flight together inside one
\* window observe distinct counts.
C4_DistinctCounts ==
    \A r1, r2 \in Slots :
        (/\ r1 # r2
         /\ Decided(r1) /\ Decided(r2)
         /\ req[r1].held = req[r2].held)
        => req[r1].count # req[r2].count

\* ---------------------------------------------------------------- pipeline
IsPrefix(s, t) == Len(s) <= Len(t) /\ \A i \in 1..Len(s) : s[i] = t[i]

\* The request in slot r has a stage that ended in failure.
Failed(r) ==
    /\ Len(req[r].results) > 0
    /\ req[r].results[Len(req[r].results)] # "ok"

FailedStage(r) == req[r].stages[Len(req[r].results)]
FailedKind(r)  == req[r].results[Len(req[r].results)]

\* The request in slot r was answered.
Answered(r) == req[r].pc = "done" /\ req[r].res.status # 0

\* The outward code of a stage failure, as sections 4.7 and 7 give it.
OutwardCode(stage, kind) ==
    CASE stage = "rate_limit"          -> "rate_limited"
      [] stage = "url_validation"      -> "invalid_url"
      [] stage = "fetch" /\ kind \in {"fetch_timeout", "too_many_redirects"}
                                       -> "fetch_timeout"
      [] stage = "fetch" /\ kind = "content_too_large"    -> "content_too_large"
      [] stage = "fetch" /\ kind = "invalid_content_type" -> "unsupported_content"
      [] stage = "fetch" /\ kind = "ssrf_blocked"         -> "invalid_url"
      [] stage = "fetch" /\ kind = "fetch_failed"         -> "server_error"
      [] stage = "content_extraction"  -> "unsupported_content"
      [] stage = "ai_call" /\ kind = "rate_limit_error"   -> "rate_limited"
      [] stage = "ai_call" /\ kind = "timeout_error"      -> "fetch_timeout"
      [] stage = "ai_call" /\ kind \in {"authentication_error", "invalid_request_error",
                                        "api_error", "unknown_error"}
                                       -> "server_error"
      [] stage = "response_validation" -> "parse_failed"
      [] stage = "zero_check"          -> "unsupported_content"
      [] OTHER                         -> "none"

\* C5: the stages run in the fixed order rate-limit gate, URL validation,
\* fetch, content extraction, external call, response validation,
\* zero-ingredient check, normalization; no stage starts after a stage that
\* failed (no fetch after a rate-limit or URL rejection, no external call
\* after a failed fetch or content extraction, no normalization after a
\* failed response validation), and the response carries the error of the
\* first failing stage.
C5_StagesInOrder ==
    \A r \in Slots :
        LET st == req[r].stages
            rs == req[r].results
        IN /\ IsPrefix(st, StageOrder)
           /\ Len(rs) <= Len(st) /\ Len(st) <= Len(rs) + 1
           /\ \A i \in 1..Len(rs) : rs[i] # "ok" => i = Len(st)
           /\ req[r].fetches > 0 => (Len(rs) >= 2 /\ rs[1] = "ok" /\ rs[2] = "ok")
           /\ req[r].calls > 0 => (Len(rs) >= 4 /\ rs[3] = "ok" /\ rs[4] = "ok")
           /\ req[r].normalized => (Len(rs) = 8 /\ \A i \in 1..8 : rs[i] = "ok")
           /\ (Answered(r) /\ Failed(r)) =>
                  req[r].res.code = OutwardCode(FailedStage(r), FailedKind(r))
           /\ (Answered(r) /\ Len(st) > 0 /\ ~Failed(r)) =>
                  (req[r].res.status = 200 /\ st = StageOrder)

\* A request ended at a failed fetch: it was answered with the error of the
\* fetch and no later stage ran.
C5_Witness ==
    \E r \in Slots :
        /\ Answered(r)
        /\ req[r].stages = <<"rate_limit", "url_validation", "fetch">>
        /\ req[r].results = <<"ok", "ok", "fetch_timeout">>
        /\ req[r].calls = 0 /\ ~req[r].normalized
        /\ req[r].res.code = "fetch_timeout"

\* C6, as stated: at most one call is sent to the external service per
\* request, also when the call fails.
C6_AtMostOneCall == \A r \in Slots : req[r].calls <= 1

\* C6, amended: the handler invokes the client's extractIngredients at most
\* once per request, exactly once when the request reaches that stage, and
\* never again after a failure; the client then sends between one and
\* 1 + maxRetries (3) calls to the external service.
C6_OneInvocationBoundedCalls ==
    \A r \in Slots :
        LET reached == Len(req[r].stages) >= 5
        IN /\ req[r].invocations = (IF reached THEN 1 ELSE 0)
           /\ reached => (req[r].calls >= 1 /\ req[r].calls <= 1 + DEFAULT_MAX_RETRIES)
           /\ ~reached => req[r].calls = 0

\* A request whose external call failed three times was answered.
C6_Witness ==
    \E r \in Slots :
        /\ Answered(r)
        /\ req[r].invocations = 1
        /\ req[r].calls = 1 + DEFAULT_MAX_RETRIES
        /\ Failed(r) /\ FailedStage(r) = "ai_call"

\* The status/code table of section 6.
StatusOf(code) ==
    CASE code = "invalid_url"         -> 400
      [] code = "unsupported_content" -> 400
      [] code = "unauthorized"        -> 401
      [] code = "not_found"           -> 404
      [] code = "fetch_timeout"       -> 408
      [] code = "content_too_large"   -> 413
      [] code = "parse_failed"        -> 422
      [] code = "rate_limited"        -> 429
      [] code = "server_error"        -> 500
      [] OTHER                        -> 0

\* C7: every error response, whichever component sends it (auth, rate
\* limiter, error middleware for the handler's errors and for unknown
\* errors), carries the status the table assigns to its code.
C7_StatusMatchesCode ==
    \A r \in Slots :
        req[r].res.status \notin {0, 200} =>
            /\ req[r].res.code \in ErrorCodes
            /\ req[r].res.status = StatusOf(req[r].res.code)

\* The error middleware answered a request that is no handler error (a body
\* that is not JSON) after the rate limiter had answered 429 to the identity.
C7_Witness ==
    \E r \in Slots :
        /\ req[r].res.by = "error_middleware" /\ req[r].thrown = UnknownError
        /\ req[r].res.status = 500 /\ req[r].res.code = "server_error"
        /\ \E k \in Keys : entries[k] # NoEntry /\ heap[entries[k]].count > maxRequests

\* C8: each failure of URL validation, fetch, content extraction, external
\* call and response validation is answered with the one outward code the
\* taxonomy gives it.
C8_FailureCodes ==
    \A r \in Slots :
        (/\ Answered(r) /\ Failed(r)
         /\ FailedStage(r) \in {"url_validation", "fetch", "content_extraction",
                                "ai_call", "response_validation"})
        => /\ OutwardCode(FailedStage(r), FailedKind(r)) # "none"
           /\ req[r].res.code = OutwardCode(FailedStage(r), FailedKind(r))

\* After three requests, the last one met an external timeout and was
\* answered fetch_timeout.
C8_Witness ==
    \E r \in Slots :
        /\ arrivals = MaxArrivals
        /\ Answered(r) /\ Failed(r) /\ FailedStage(r) = "ai_call"
        /\ FailedKind(r) = "timeout_error" /\ req[r].res.code = "fetch_timeout"

MaxOctet == 255
Octets == 0..MaxOctet

\* String(n) for an integer n >= 0
RECURSIVE Dec(_)
Dec(n) == IF n < 10 THEN <<n>> ELSE Append(Dec(n \div 10), n % 10)

\* Number(p) for a text of decimal digits
RECURSIVE Num(_)
Num(p) == IF p = << >> THEN 0 ELSE 10 * Num(SubSeq(p, 1, Len(p) - 1)) + p[Len(p)]

\* n.toString(16)
RECURSIVE Hex(_)
Hex(n) == IF n < 16 THEN <<n>> ELSE Append(Hex(n \div 16), n % 16)

\* parseInt(g, 16) for a text of hexadecimal digits
RECURSIVE HexNum(_)
HexNum(g) == IF g = << >> THEN 0 ELSE 16 * HexNum(SubSeq(g, 1, Len(g) - 1)) + g[Len(g)]

\* g.padStart(4, '0')
RECURSIVE padStart4(_)
padStart4(g) == IF Len(g) >= 4 THEN g ELSE padStart4(<<0>> \o g)

\* the text a.b.c.d of four numbers
Dotted(a, b, c, d) == <<Dec(a), Dec(b), Dec(c), Dec(d)>>

\* isPrivateIPv4 with 172.16.0.0/12 cut short at 172.30
isPrivateIPv4Short(ip) ==
    LET a == Num(ip[1])
        b == Num(ip[2])
    IN \/ a = 0
       \/ a = 10
       \/ a = 127
       \/ (a = 169 /\ b = 254)
       \/ (a = 172 /\ b >= 16 /\ b <= 30)
       \/ (a = 192 /\ b = 168)
       \/ a >= 224

\* contentExtract.ts:325-358   isPrivateIPv4(ip), ip given as ip.split('.')
isPrivateIPv4(ip) ==
    LET parts == [i \in 1..Len(ip) |-> Num(ip[i])] IN
    IF Len(parts) # 4 \/ \E i \in 1..Len(parts) : parts[i] < 0 \/ parts[i] > MaxOctet
    THEN FALSE
    ELSE LET a == parts[1]
             b == parts[2]
         IN \/ a = 0
            \/ a = 10
            \/ a = 127
            \/ (a = 169 /\ b = 254)
            \/ (a = 172 /\ b >= 16 /\ b <= 31)
            \/ (a = 192 /\ b = 168)
            \/ (a >= 224 /\ a <= 239)
            \/ a >= 240

\* An IPv6 text: the groups before `::`, whether `::` is there, the groups
\* after it, and a dotted quad at the end (<< >>: none).  A text without
\* `::` has all its groups in left.
V6Text(left, gap, right, v4) == [left |-> left, gap |-> gap, right |-> right, v4 |-> v4]

\* contentExtract.ts:405-439   expandIPv6: the eight padded groups, or
\* << >> for null
expandIPv6(ip) ==
    LET tail == IF ip.v4 = << >> THEN << >>
                ELSE <<Hex(Num(ip.v4[1]) * 256 + Num(ip.v4[2])),
                       Hex(Num(ip.v4[3]) * 256 + Num(ip.v4[4]))>>
        padded(gs) == [i \in 1..Len(gs) |-> padStart4(gs[i])]
    IN IF ip.gap
       THEN LET left    == ip.left
                right   == ip.right \o [i \in 1..Len(tail) |-> padStart4(tail[i])]
                missing == 8 - Len(left) - Len(right)
            IN IF missing < 0 THEN << >>
               ELSE padded(left \o [i \in 1..missing |-> <<0, 0, 0, 0>>] \o right)
       ELSE LET segments == ip.left \o [i \in 1..Len(tail) |-> padStart4(tail[i])]
            IN IF Len(segments) # 8 THEN << >> ELSE padded(segments)

\* contentExtract.ts:368-399   isPrivateIPv6
isPrivateIPv6(ip) ==
    IF ip = V6Text(<< >>, TRUE, <<<<1>>>>, << >>) THEN TRUE
    ELSE IF ip.left = << >> /\ ip.gap /\ ip.right = <<<<15, 15, 15, 15>>>> /\ ip.v4 # << >>
    THEN isPrivateIPv4(ip.v4)
    ELSE LET expanded == expandIPv6(ip) IN
         IF expanded = << >> THEN FALSE
         ELSE LET firstSegment == HexNum(expanded[1])
              IN \/ (firstSegment >= 65152 /\ firstSegment <= 65215)
                 \/ (firstSegment >= 65216 /\ firstSegment <= 65279)
                 \/ (firstSegment >= 64512 /\ firstSegment <= 65023)
                 \/ \A i \in 1..8 : expanded[i] = <<0, 0, 0, 0>>

\* An IPv6 address is the sequence of its eight 16-bit groups.
\* The length of the run of zero groups of vs that starts at i.
RECURSIVE ZeroRun(_, _)
ZeroRun(vs, i) == IF i > Len(vs) \/ vs[i] # 0 THEN 0 ELSE 1 + ZeroRun(vs, i + 1)

\* The text in which an IPv6 address reaches the validator.  url.hostname
\* (new URL, contentExtract.ts:495, 506) carries the WHATWG serialization:
\* lowercase groups without leading zeros, the first longest run of two or
\* more zero groups written `::`, never a dotted quad.  record.address of
\* dns lookup (contentExtract.ts:533-542) is written the same way except
\* that an IPv4-mapped address ends in its dotted quad.
V6Serialize(vs, dotted) ==
    IF dotted /\ (\A i \in 1..5 : vs[i] = 0) /\ vs[6] = 65535
    THEN V6Text(<< >>, TRUE, <<Hex(65535)>>,
                Dotted(vs[7] \div 256, vs[7] % 256, vs[8] \div 256, vs[8] % 256))
    ELSE LET longest == Max(0, CHOOSE n \in 0..8 :
                                 /\ \E i \in 1..8 : ZeroRun(vs, i) = n
                                 /\ \A i \in 1..8 : ZeroRun(vs, i) <= n)
             groups(a, b) == [i \in 1..(b - a + 1) |-> Hex(vs[a + i - 1])]
         IN IF longest < 2 THEN V6Text(groups(1, 8), FALSE, << >>, << >>)
            ELSE LET at == CHOOSE i \in 1..8 :
                             /\ ZeroRun(vs, i) = longest
                             /\ \A k \in 1..(i - 1) : ZeroRun(vs, k) < longest
                 IN V6Text(groups(1, at - 1), TRUE, groups(at + longest, 8), << >>)

\* url.hostname for the host of a URL: a dotted quad, a bracketed IPv6 text,
\* or a domain name
Hostname(host) ==
    CASE host.kind = "v4" -> [kind |-> "v4",
                              parts |-> Dotted(host.addr[1], host.addr[2], host.addr[3], host.addr[4])]
      [] host.kind = "v6" -> [kind |-> "v6", text |-> V6Serialize(host.addr, FALSE)]
      [] OTHER            -> [kind |-> "name", name |-> host.name]

\* contentExtract.ts:444-453   isLocalhostHostname
isLocalhostHostname(hostname) ==
    \/ hostname.kind = "name"
          /\ hostname.name \in {"localhost", "localhost.localdomain", "app.localhost"}
    \/ hostname.kind = "v6" /\ hostname.text = V6Text(<< >>, TRUE, <<<<1>>>>, << >>)
    \/ hostname.kind = "v4" /\ hostname.parts[1] = <<1, 2, 7>>

\* contentExtract.ts:458-465   isIPv4
isIPv4(hostname) ==
    /\ hostname.kind = "v4"
    /\ Len(hostname.parts) = 4
    /\ \A i \in 1..4 : LET num == Num(hostname.parts[i])
                       IN num >= 0 /\ num <= MaxOctet /\ Dec(num) = hostname.parts[i]

\* contentExtract.ts:470-479   isIPv6: the text holds a colon and at most
\* one `::`
isIPv6(hostname) == hostname.kind = "v6"

Valid == [valid |-> TRUE, reason |-> ""]
Invalid(reason) == [valid |-> FALSE, reason |-> reason]
Pending == [valid |-> FALSE, reason |-> "pending"]

\* contentExtract.ts:491-529   validateUrl, steps 1 to 4: the result, or
\* Pending when the host has to be resolved
validateUrlLiteral(protocol, hostname) ==
    IF protocol # "http:" /\ protocol # "https:"
    THEN Invalid("URL must use http or https protocol.")
    ELSE IF isLocalhostHostname(hostname)
    THEN Invalid("URLs pointing to localhost are not allowed.")
    ELSE IF isIPv4(hostname)
    THEN IF isPrivateIPv4(hostname.parts)
         THEN Invalid("URLs pointing to private IP addresses are not allowed.")
         ELSE Valid
    ELSE IF isIPv6(hostname)
    THEN IF isPrivateIPv6(hostname.text)
         THEN Invalid("URLs pointing to private IP addresses are not allowed.")
         ELSE Valid
    ELSE Pending

\* What dns lookup settles with: a rejection (ENOTFOUND), or the list of its
\* records, each a family and an address
LookupAddress(record) ==
    IF record.family = 4
    THEN Dotted(record.addr[1], record.addr[2], record.addr[3], record.addr[4])
    ELSE V6Serialize(record.addr, TRUE)

\* step 5 looking at the first record only
validateUrlResolvedFirst(result) ==
    IF ~result.ok THEN Invalid("Could not resolve hostname.")
    ELSE IF \/ result.records[1].family = 4
                  /\ isPrivateIPv4(LookupAddress(result.records[1]))
            \/ result.records[1].family = 6
                  /\ isPrivateIPv6(LookupAddress(result.records[1]))
    THEN Invalid("URL resolves to a private IP address.")
    ELSE Valid

\* contentExtract.ts:531-557   validateUrl, step 5
validateUrlResolved(result) ==
    IF ~result.ok THEN Invalid("Could not resolve hostname.")
    ELSE IF \E i \in 1..Len(result.records) :
               \/ result.records[i].family = 4
                     /\ isPrivateIPv4(LookupAddress(result.records[i]))
               \/ result.records[i].family = 6
                     /\ isPrivateIPv6(LookupAddress(result.records[i]))
    THEN Invalid("URL resolves to a private IP address.")
    ELSE Valid

\* The route at rest, while a component is called on its own.
route == <<now, ticks, arrivals, maxRequests, entries, heap, win, req>>

AtRest ==
    /\ now = 0
    /\ ticks = 0
    /\ arrivals = 0
    /\ maxRequests = MaxLimit
    /\ entries = [k \in Keys |-> NoEntry]
    /\ heap = << >>
    /\ win = [u \in Users |-> NoWindow]
    /\ req = [r \in Slots |-> IdleRequest]

MaxRecords == 2        \* longest list of records dns lookup returns

\* Hosts of the URLs given to the validator.
V4Hosts == {[kind |-> "v4", addr |-> <<a, b, c, 1>>] : a \in Octets, b \in Octets, c \in {0, MaxOctet}}

V4Samples == {<<127, 0, 0, 1>>, <<10, 0, 0, 1>>, <<192, 168, 1, 1>>, <<169, 254, 1, 1>>,
              <<172, 16, 0, 1>>, <<0, 0, 0, 0>>, <<224, 0, 0, 1>>, <<255, 255, 255, 255>>,
              <<8, 8, 8, 8>>, <<93, 184, 216, 34>>}

\* ::ffff:a.b.c.d
Mapped(q) == <<0, 0, 0, 0, 0, 65535, q[1] * 256 + q[2], q[3] * 256 + q[4]>>

V6Addrs ==
    {<<f>> \o t : f \in {64512, 65023, 64511, 65024, 65152, 65215, 65216, 65279,
                         65280, 8193, 9734},
                  t \in {<<0, 0, 0, 0, 0, 0, 0>>, <<0, 0, 0, 0, 0, 0, 1>>,
                         <<1, 2, 3, 4, 5, 6, 7>>}}
    \cup {<<0, 0, 0, 0, 0, 0, 0, 0>>, <<0, 0, 0, 0, 0, 0, 0, 1>>}
    \cup {Mapped(q) : q \in V4Samples}

V6Hosts == {[kind |-> "v6", addr |-> v] : v \in V6Addrs}

NameHosts == {[kind |-> "name", name |-> n] :
                 n \in {"localhost", "localhost.localdomain", "app.localhost",
                        "example.com", "intranet.example"}}

ValidatorInputs ==
    ({"http:", "https:"} \X (V4Hosts \cup V6Hosts \cup NameHosts))
    \cup ({"ftp:"} \X NameHosts)

\* Records of dns lookup.
LookupRecords ==
    {[family |-> 4, addr |-> q] : q \in {<<8, 8, 8, 8>>, <<10, 0, 0, 1>>,
                                         <<172, 31, 255, 255>>, <<93, 184, 216, 34>>}}
    \cup {[family |-> 6, addr |-> v] :
             v \in {<<9734, 18176, 0, 0, 0, 0, 0, 4369>>, <<0, 0, 0, 0, 0, 0, 0, 1>>,
                    <<65152, 0, 0, 0, 0, 0, 0, 1>>, <<64768, 0, 0, 0, 0, 0, 0, 1>>,
                    Mapped(<<127, 0, 0, 1>>), Mapped(<<8, 8, 8, 8>>)}}

LookupResults ==
    {[ok |-> FALSE, records |-> << >>]}
    \cup {[ok |-> TRUE, records |-> rs] :
             rs \in UNION {[1..n -> LookupRecords] : n \in 1..MaxRecords}}

InitValidator ==
    /\ AtRest
    /\ \E in \in ValidatorInputs :
          call = [op |-> "validateUrl", protocol |-> in[1], host |-> in[2],
                  pc |-> "start", result |-> Pending,
                  looked |-> FALSE, lookup |-> [ok |-> FALSE, records |-> << >>]]

\* contentExtract.ts:491-531   validateUrl up to `await lookup(hostname, ...)`
ValidateUrlCall ==
    /\ call.op = "validateUrl" /\ call.pc = "start"
    /\ LET r == validateUrlLiteral(call.protocol, Hostname(call.host))
       IN call' = [call EXCEPT !.result = r,
                               !.pc = IF r = Pending THEN "lookup" ELSE "done"]
    /\ UNCHANGED route

\* contentExtract.ts:531-557   lookup settles and validateUrl returns
LookupReturn(result) ==
    /\ call.op = "validateUrl" /\ call.pc = "lookup"
    /\ call' = [call EXCEPT !.result = validateUrlResolved(result),
                            !.looked = TRUE, !.lookup = result, !.pc = "done"]
    /\ UNCHANGED route

NextValidator ==
    \/ ValidateUrlCall
    \/ \E result \in LookupResults : LookupReturn(result)

SpecValidator == InitValidator /\ [][NextValidator]_vars

\* validateUrl returned for a URL with scheme http or https.
Validated == call.op = "validateUrl" /\ call.pc = "done" /\ call.protocol \in {"http:", "https:"}

\* The IPv4 address a.b.c.d lies in 0.0.0.0/8, 10.0.0.0/8, 127.0.0.0/8,
\* 169.254.0.0/16, 172.16.0.0/12, 192.168.0.0/16, 224.0.0.0/4 or 240.0.0.0/4.
ReservedV4(q) ==
    \/ q[1] \in {0, 10, 127}
    \/ (q[1] = 169 /\ q[2] = 254)
    \/ (q[1] = 172 /\ q[2] \div 16 = 1)
    \/ (q[1] = 192 /\ q[2] = 168)
    \/ q[1] \div 16 \in {14, 15}

\* C11: an http or https URL whose host is the literal IPv4 address a.b.c.d
\* is rejected when the address lies in one of the eight reserved blocks and
\* accepted otherwise.
C11_LiteralIPv4 ==
    (Validated /\ call.host.kind = "v4") =>
        (call.result.valid <=> ~ReservedV4(call.host.addr))

\* The last address of 172.16.0.0/12 was rejected.
C11_Witness ==
    /\ Validated /\ call.host.kind = "v4"
    /\ call.host.addr[1] = 172 /\ call.host.addr[2] = 31 /\ call.host.addr[3] = MaxOctet
    /\ ~call.result.valid

\* The IPv6 address vs is ::1, ::, in fc00::/7, fe80::/10 or fec0::/10, or
\* IPv4-mapped with an embedded address of a reserved IPv4 block.
ReservedV6(vs) ==
    \/ vs = <<0, 0, 0, 0, 0, 0, 0, 1>>
    \/ vs = <<0, 0, 0, 0, 0, 0, 0, 0>>
    \/ vs[1] \div 512 = 126
    \/ vs[1] \div 64 \in {1018, 1019}
    \/ /\ \A i \in 1..5 : vs[i] = 0
       /\ vs[6] = 65535
       /\ ReservedV4(<<vs[7] \div 256, vs[7] % 256, vs[8] \div 256, vs[8] % 256>>)

\* C12: a URL whose host is an IPv6 address that is ::1, ::, in fc00::/7,
\* fe80::/10 or fec0::/10, or IPv4-mapped onto a reserved IPv4 address, is
\* rejected, in whatever text the address reaches the classifier.
C12_LiteralIPv6 ==
    (Validated /\ call.host.kind = "v6" /\ ReservedV6(call.host.addr)) => ~call.result.valid

\* The address of a record of dns lookup is private or reserved.
ReservedRecord(record) ==
    IF record.family = 4 THEN ReservedV4(record.addr) ELSE ReservedV6(record.addr)

\* C13: a URL whose host is a domain name is accepted only if the name was
\* resolved and every address returned, of either family and at any place of
\* the list, is outside the private and reserved ranges; one such address
\* rejects the URL, and a failed resolution gives 'Could not resolve hostname.'
C13_ResolvedAddresses ==
    (Validated /\ call.host.kind = "name") =>
        /\ call.result.valid =>
              /\ call.looked /\ call.lookup.ok
              /\ \A i \in 1..Len(call.lookup.records) : ~ReservedRecord(call.lookup.records[i])
        /\ (call.looked /\ call.lookup.ok
               /\ \E i \in 1..Len(call.lookup.records) : ReservedRecord(call.lookup.records[i]))
              => ~call.result.valid
        /\ (call.looked /\ ~call.lookup.ok)
              => call.result = Invalid("Could not resolve hostname.")

\* A name resolved to a public address followed by a private one and was
\* rejected.
C13_Witness ==
    /\ Validated /\ call.host.kind = "name" /\ call.looked /\ call.lookup.ok
    /\ Len(call.lookup.records) = 2
    /\ ~ReservedRecord(call.lookup.records[1])
    /\ ReservedRecord(call.lookup.records[2])
    /\ call.result = Invalid("URL resolves to a private IP address.")

\* ------------------------------------------------------------ bounded fetch
\* part_008:53-165.  A text is the sequence of its characters, a character
\* is the number of bytes of its UTF-8 encoding (1 to 4).  A message is the
\* sequence of the pieces it is put together from.

MaxSizeBytes == 4      \* largest options.maxSizeBytes explored
MaxBodyChars == 3      \* longest response body, in characters

RECURSIVE SumSeq(_)
SumSeq(q) == IF q = << >> THEN 0 ELSE q[1] + SumSeq(Tail(q))

\* the bytes the server sends for the body
ByteLength(body) == SumSeq(body)

\* body.length of the decoded string: UTF-16 code units, two for a
\* character of four bytes and one for every other
StringLength(body) == SumSeq([i \in 1..Len(body) |-> IF body[i] = 4 THEN 2 ELSE 1])

Bodies == UNION {[1..n -> 1..4] : n \in 0..MaxBodyChars}

NoLength == -1         \* the response has no Content-Length header

\* Messages of errors that the request-filtering agent raises, and of other
\* network errors.
BlockedMessages == {<<"DNS lookup 10.0.0.5(family:4, host:intranet.example) is not allowed. ",
                      "Because, It is private IP address.">>}
NetworkMessages == {<<"connect ECONNREFUSED 203.0.113.7:443">>,
                    <<"getaddrinfo ENOTFOUND recipes.example">>}

\* e.message?.includes('SSRF') || includes('private') || includes('blocked')
IncludesBlockWord(message) == message \in BlockedMessages

\* What got settles with: a response of status 2xx with its body, or an error.
ServerAnswers ==
    {[kind |-> "response", status |-> 200, declared |-> d, body |-> b, html |-> h,
      code |-> "", message |-> << >>] :
        b \in Bodies, d \in {NoLength} \cup 0..(4 * MaxBodyChars), h \in BOOLEAN}
    \cup {[kind |-> "HTTPError", status |-> st[1], declared |-> NoLength, body |-> << >>,
           html |-> FALSE, code |-> "ERR_NON_2XX_3XX_RESPONSE", message |-> <<st[2]>>] :
             st \in {<<404, "Not Found">>, <<500, "Internal Server Error">>,
                     <<503, "Service Unavailable">>}}
    \cup {[kind |-> "TimeoutError", status |-> 0, declared |-> NoLength, body |-> << >>,
           html |-> FALSE, code |-> "ETIMEDOUT", message |-> <<"Timeout awaiting 'request'">>]}
    \cup {[kind |-> "Error", status |-> 0, declared |-> NoLength, body |-> << >>,
           html |-> FALSE, code |-> "ERR_TOO_MANY_REDIRECTS", message |-> <<"Redirected 5 times">>]}
    \cup {[kind |-> "Error", status |-> 0, declared |-> NoLength, body |-> << >>,
           html |-> FALSE, code |-> "", message |-> m] :
             m \in BlockedMessages \cup NetworkMessages}
    \cup {[kind |-> "thrown_value", status |-> 0, declared |-> NoLength, body |-> << >>,
           html |-> FALSE, code |-> "", message |-> << >>]}

HtmlFetchError(code, message) == [ok |-> FALSE, code |-> code, message |-> message]
HtmlFetchSuccess == [ok |-> TRUE, code |-> "", message |-> << >>]

\* part_008:132-165   handleFetchError
handleFetchError(error) ==
    IF error.kind = "TimeoutError" THEN HtmlFetchError("fetch_timeout", <<"Request timed out">>)
    ELSE IF error.kind = "HTTPError"
    THEN HtmlFetchError("fetch_failed", <<"HTTP ", ToString(error.status), ": ">> \o error.message)
    ELSE IF error.kind = "Error"
    THEN IF error.code = "ERR_CONTENT_TOO_LARGE"
         THEN HtmlFetchError("content_too_large", error.message)
         ELSE IF error.code = "ERR_TOO_MANY_REDIRECTS"
         THEN HtmlFetchError("too_many_redirects", <<"Too many redirects">>)
         ELSE IF IncludesBlockWord(error.message)
         THEN HtmlFetchError("ssrf_blocked", <<"Request blocked: target address not allowed">>)
         ELSE HtmlFetchError("fetch_failed", error.message)
    ELSE HtmlFetchError("fetch_failed", <<"Unknown fetch error">>)

\* part_008:53-125   fetchHtml, once got has settled with `answer`
fetchHtml(answer, maxSizeBytes) ==
    IF answer.kind # "response" THEN handleFetchError(answer)
    ELSE IF answer.declared # NoLength /\ answer.declared > maxSizeBytes
    THEN handleFetchError([kind |-> "Error", status |-> 0, code |-> "ERR_CONTENT_TOO_LARGE",
                           message |-> <<"Content size ", ToString(answer.declared),
                                         " exceeds limit of ", ToString(maxSizeBytes),
                                         " bytes">>])
    ELSE IF StringLength(answer.body) > maxSizeBytes
    THEN HtmlFetchError("content_too_large",
                        <<"Response body exceeds limit of ", ToString(maxSizeBytes), " bytes">>)
    ELSE IF ~answer.html
    THEN HtmlFetchError("invalid_content_type", <<"Expected HTML content-type, got: ">>)
    ELSE HtmlFetchSuccess

\* types.ts:105-113   buildErrorResponse: the body carries the message
buildErrorResponse(code, message) == [code |-> code, message |-> message]

\* types.ts:125-151   what the error middleware sends for a thrown
\* RecipeUrlIngredientsError(code, message): its status and its own message
SentFor(code, message) ==
    [status |-> errorCodeToStatusCode(code), body |-> buildErrorResponse(code, message)]

\* types.ts:146-150   what it sends for any other thrown value
SentForUnknown ==
    [status |-> 500,
     body |-> buildErrorResponse("server_error", <<"An unexpected error occurred">>)]

NotSent == [status |-> 0, body |-> buildErrorResponse("", << >>)]

\* The fetch stage on its own: got has settled with call.answer.
InitFetch ==
    /\ AtRest
    /\ \E answer \in ServerAnswers, limit \in 1..MaxSizeBytes :
         call = [op |-> "fetchHtml", answer |-> answer, maxSizeBytes |-> limit,
                 pc |-> "start", result |-> HtmlFetchSuccess, sent |-> NotSent]

\* part_005:184   const fetchResult = await fetchHtml(url)
FetchHtmlCall ==
    /\ call.op = "fetchHtml" /\ call.pc = "start"
    /\ call' = [call EXCEPT !.pc = "fetched",
                            !.result = fetchHtml(call.answer, call.maxSizeBytes)]
    /\ UNCHANGED route

\* part_005:186-191 with types.ts:141-144   a failed fetch is answered
FetchFailed ==
    /\ call.op = "fetchHtml" /\ call.pc = "fetched" /\ ~call.result.ok
    /\ call' = [call EXCEPT !.pc = "done",
                            !.sent = SentFor(mapFetchErrorCode(call.result.code),
                                             call.result.message)]
    /\ UNCHANGED route

\* part_005:194   a fetched page goes on to content extraction
FetchSucceeded ==
    /\ call.op = "fetchHtml" /\ call.pc = "fetched" /\ call.result.ok
    /\ call' = [call EXCEPT !.pc = "extract"]
    /\ UNCHANGED route

NextFetch == FetchHtmlCall \/ FetchFailed \/ FetchSucceeded

SpecFetch == InitFetch /\ [][NextFetch]_vars

Fetched == call.op = "fetchHtml" /\ call.pc # "start"

\* C14: a fetch whose response body amounts to more bytes than the size
\* limit ends with content_too_large and never with success, whatever the
\* characters of the body and whether Content-Length is absent, correct or
\* understated.
C14_OversizeBodyRejected ==
    (Fetched /\ call.answer.kind = "response"
       /\ ByteLength(call.answer.body) > call.maxSizeBytes)
        => (~call.result.ok /\ call.result.code = "content_too_large")

\* C17: when the server of the target URL answers the fetch with HTTP 404,
\* the endpoint responds with status 404 and error code not_found.
C17_TargetNotFound ==
    (call.op = "fetchHtml" /\ call.pc = "done"
       /\ call.answer.kind = "HTTPError" /\ call.answer.status = 404)
        => (call.sent.status = 404 /\ call.sent.body.code = "not_found")

\* ---------------------------------------------------- failures, side by side
\* Two requests that fail for internal causes, each answered as the handler
\* and the error middleware answer it.

\* error.message of what the Anthropic SDK, or anything else inside
\* extractIngredients, throws
UpstreamTexts == {<<"500 {type: error, error: {type: api_error}}">>,
                  <<"529 {type: error, error: {type: overloaded_error}}">>}

\* message of what anything else in the handler throws
ExceptionTexts == {<<"ANTHROPIC_API_KEY is not set">>,
                   <<"Cannot read properties of undefined (reading 'userId')">>}

\* anthropicClient.ts:81-88, 100-116, 165-213   the message of the
\* AnthropicClientError that extractIngredients throws
AnthropicClientErrorMessage(reply, hasTimeout, text) ==
    LET code == extractIngredients(reply, hasTimeout)
    IN  IF reply = "no_text" THEN <<"No text content in AI response">>
        ELSE IF code = "unknown_error"
        THEN <<"Unexpected error during AI extraction: ">> \o text
        ELSE IF code = "authentication_error" THEN <<"Invalid Anthropic API key">>
        ELSE IF code = "rate_limit_error" THEN <<"Anthropic rate limit exceeded">>
        ELSE IF code = "timeout_error" THEN <<"Anthropic request timed out">>
        ELSE IF code = "invalid_request_error"
        THEN <<"Invalid request to Anthropic: ">> \o text
        ELSE <<"Anthropic API error: ">> \o text

NoAnswer == [kind |-> "none"]

FailureCauses ==
    {[stage |-> "fetch", answer |-> a, reply |-> "", text |-> << >>] :
        a \in {x \in ServerAnswers : x.kind # "response"}}
    \cup {[stage |-> "ai", answer |-> NoAnswer, reply |-> rp, text |-> t] :
            rp \in {"no_text", "400", "401", "429", "500", "non_api"}, t \in UpstreamTexts}
    \cup {[stage |-> "handler", answer |-> NoAnswer, reply |-> "", text |-> t] :
            t \in ExceptionTexts}

\* part_005:184-221 with types.ts:125-151   the answer to a request that
\* fails with `cause`
SentForCause(cause) ==
    IF cause.stage = "fetch"
    THEN LET fetchError == fetchHtml(cause.answer, MaxSizeBytes)
         IN  SentFor(mapFetchErrorCode(fetchError.code), fetchError.message)
    ELSE IF cause.stage = "ai"
    THEN SentFor(mapAnthropicErrorCode(extractIngredients(cause.reply, FALSE)),
                 AnthropicClientErrorMessage(cause.reply, FALSE, cause.text))
    ELSE SentForUnknown

InitFailures ==
    /\ AtRest
    /\ \E c1 \in FailureCauses, c2 \in FailureCauses :
         call = [op |-> "failures",
                 runs |-> <<[cause |-> c1, pc |-> "failing", sent |-> NotSent],
                            [cause |-> c2, pc |-> "failing", sent |-> NotSent]>>]

FailureAnswered(i) ==
    /\ call.op = "failures" /\ call.runs[i].pc = "failing"
    /\ call' = [call EXCEPT !.runs[i].pc = "done",
                            !.runs[i].sent = SentForCause(call.runs[i].cause)]
    /\ UNCHANGED route

NextFailures == \E i \in 1..2 : FailureAnswered(i)

SpecFailures == InitFailures /\ [][NextFailures]_vars

\* C16: two requests that fail with different internal causes and are both
\* answered server_error receive the same message: the body of a
\* server_error response does not depend on the detail of the failure.
C16_ServerErrorBodyUniform ==
    (call.op = "failures"
       /\ \A i \in 1..2 : call.runs[i].pc = "done"
                          /\ call.runs[i].sent.body.code = "server_error")
        => call.runs[1].sent.body = call.runs[2].sent.body

\* ------------------------------------------------------- failing store
StoreFailed(r) == req[r].gate = "store_failed" /\ req[r].pc # "rate_limit_rejected"

\* C15: a request on which the rate-limit store fails is passed on to the
\* next stage exactly once and is not answered with 429, and the failure
\* changes no window.
C15_StoreFailureFailsOpen ==
    /\ [](\A r \in Slots : StoreFailed(r) =>
            /\ req[r].passed = 1
            /\ req[r].pc \in {"handler", "thrown", "done"}
            /\ req[r].res.status # 429
            /\ req[r].res.code # "rate_limited")
    /\ [][\A r \in Slots :
            (req'[r].gate = "store_failed"
               /\ req[r].pc \in {"rate_limit", "rate_limit_rejected"}
               /\ req'[r].pc # req[r].pc)
              => UNCHANGED <<entries, heap, win>>]_vars

\* The store failed on a request of an identity that has already used up its
\* limit, and the handler behind the limiter answered the request.
C15_Witness ==
    \E r \in Slots :
        /\ StoreFailed(r) /\ req[r].pc = "done" /\ req[r].res.status = 400
        /\ entries[RateKey(req[r].userId)] # NoEntry
        /\ heap[entries[RateKey(req[r].userId)]].count >= maxRequests

\* ------------------------------------------------------ content extraction
\* contentExtract.ts:37-221.  A string is the sequence of its characters; a
\* JSON value is a record tagged with its kind.

MaxScripts == 2        \* most JSON-LD scripts in a document
MaxItems == 2          \* most items of an array or @graph

Str(q) == [t |-> "string", s |-> q]
JsonNumber == [t |-> "number"]
JsonNull == [t |-> "null"]
Arr(items) == [t |-> "array", items |-> items]

IsSpace(c) == c \in {" ", "\n", "\t"}

\* String.prototype.trim
RECURSIVE trimStart(_)
trimStart(q) == IF q # << >> /\ IsSpace(q[1]) THEN trimStart(Tail(q)) ELSE q
RECURSIVE trimEnd(_)
trimEnd(q) ==
    IF q # << >> /\ IsSpace(q[Len(q)]) THEN trimEnd(SubSeq(q, 1, Len(q) - 1)) ELSE q
trim(q) == trimEnd(trimStart(q))

\* contentExtract.ts:104-107   filter strings, trim, filter non-empty
keptIngredients(items) ==
    LET IsString(v) == v.t = "string"
        NonEmpty(v) == Len(v) > 0
        strings == SelectSeq(items, IsString)
    IN  SelectSeq([i \in 1..Len(strings) |-> trim(strings[i].s)], NonEmpty)

NoRecipe == [found |-> FALSE, name |-> << >>, hasName |-> FALSE, recipeIngredient |-> << >>]

\* contentExtract.ts:96-130   parseRecipeObject (recipeYield is left out)
parseRecipeObject(obj) ==
    IF obj.recipeIngredient.t # "array" THEN NoRecipe
    ELSE IF keptIngredients(obj.recipeIngredient.items) = << >> THEN NoRecipe
    ELSE [found |-> TRUE,
          hasName |-> obj.name.t = "string",
          name |-> IF obj.name.t = "string" THEN trim(obj.name.s) ELSE << >>,
          recipeIngredient |-> keptIngredients(obj.recipeIngredient.items)]

\* contentExtract.ts:76-79   type === 'Recipe' || (Array.isArray(type) && type.includes('Recipe'))
isRecipe(obj) == obj.type \in {"Recipe", "[Article,Recipe]"}

\* contentExtract.ts:61-91   findRecipeInJsonLd
RECURSIVE findRecipeInJsonLd(_)
RECURSIVE findRecipeInItems(_)
findRecipeInJsonLd(data) ==
    IF data.t \notin {"object", "array"} THEN NoRecipe
    ELSE IF data.t = "array" THEN findRecipeInItems(data.items)
    ELSE IF isRecipe(data) THEN parseRecipeObject(data)
    ELSE IF data.graph.t = "array" THEN findRecipeInJsonLd(data.graph)
    ELSE NoRecipe
findRecipeInItems(items) ==
    IF items = << >> THEN NoRecipe
    ELSE LET recipe == findRecipeInJsonLd(items[1])
         IN  IF recipe.found THEN recipe ELSE findRecipeInItems(Tail(items))

\* contentExtract.ts:37-55   extractJsonLdRecipe over the scripts in document
\* order; a script is empty, or text that JSON.parse rejects, or JSON
RECURSIVE extractJsonLdRecipe(_)
extractJsonLdRecipe(scripts) ==
    IF scripts = << >> THEN NoRecipe
    ELSE IF scripts[1].t \in {"empty", "not_json"} THEN extractJsonLdRecipe(Tail(scripts))
    ELSE LET recipe == findRecipeInJsonLd(scripts[1])
         IN  IF recipe.found THEN recipe ELSE extractJsonLdRecipe(Tail(scripts))

\* Array.prototype.join('\n')
RECURSIVE join(_)
join(lines) ==
    IF lines = << >> THEN << >>
    ELSE IF Len(lines) = 1 THEN lines[1]
    ELSE lines[1] \o <<"\n">> \o join(Tail(lines))

\* contentExtract.ts:135-154   formatJsonLdRecipeAsContent
formatJsonLdRecipeAsContent(recipe) ==
    join((IF recipe.hasName /\ recipe.name # << >>
          THEN <<(<<"Recipe Name: ">> \o recipe.name)>> ELSE << >>)
         \o << << >>, <<"Ingredients:">> >>
         \o [i \in 1..Len(recipe.recipeIngredient) |->
               <<"-", " ">> \o recipe.recipeIngredient[i]])

ContentExtractError(code) == [ok |-> FALSE, code |-> code, content |-> << >>]
ContentExtractSuccess(content) == [ok |-> TRUE, code |-> "", content |-> content]

\* contentExtract.ts:162-221   extractContent on a parsed document: its
\* JSON-LD scripts, the text Readability finds in the cleaned document and the
\* text of the cleaned body
extractContent(scripts, article, bodyText) ==
    LET jsonLdRecipe == extractJsonLdRecipe(scripts)
    IN  IF jsonLdRecipe.found
        THEN ContentExtractSuccess(formatJsonLdRecipeAsContent(jsonLdRecipe))
        ELSE IF trim(article) # << >> THEN ContentExtractSuccess(trim(article))
        ELSE IF trim(bodyText) # << >> THEN ContentExtractSuccess(trim(bodyText))
        ELSE ContentExtractError("no_content")

SeqsUpTo(S, n) == UNION {[1..k -> S] : k \in 0..n}

\* Entries of a recipeIngredient array: plain, padded, blank, not a string,
\* and a string holding a line break.
IngredientItems == {Str(<<"a">>), Str(<<" ", "b", " ">>), Str(<<" ", " ">>), JsonNumber,
                    Str(<<"c", "\n", "-", " ", "d">>)}

\* recipeIngredient: an array, absent, or not an array
IngredientValues ==
    {Arr(q) : q \in SeqsUpTo(IngredientItems, MaxItems)} \cup {JsonNull, Str(<<"a">>)}

Obj(type, name, ingredients, graph) ==
    [t |-> "object", type |-> type, name |-> name, recipeIngredient |-> ingredients,
     graph |-> graph]

\* A Recipe with a name and a Recipe within a type array without one
RecipeObjects ==
    {Obj("Recipe", Str(<<" ", "C">>), v, JsonNull) : v \in IngredientValues}
    \cup {Obj("[Article,Recipe]", JsonNull, v, JsonNull) : v \in IngredientValues}

\* The recipes that stand inside arrays and @graph: two usable ones, one
\* whose entries are all dropped, one without recipeIngredient
NestedRecipes ==
    {Obj("Recipe", Str(<<" ", "C">>), Arr(<<Str(<<"a">>)>>), JsonNull),
     Obj("[Article,Recipe]", JsonNull, Arr(<<Str(<<" ", "b", " ">>), Str(<<"a">>)>>), JsonNull),
     Obj("Recipe", JsonNull, Arr(<<Str(<<" ", " ">>), JsonNumber>>), JsonNull),
     Obj("Recipe", Str(<<" ", "C">>), JsonNull, JsonNull)}

OtherObject == Obj("Article", Str(<<" ", "C">>), Arr(<<Str(<<"a">>)>>), JsonNull)

GraphObjects ==
    {Obj("WebPage", JsonNull, JsonNull, Arr(q)) :
        q \in SeqsUpTo(NestedRecipes \cup {OtherObject}, MaxItems)}

JsonArrays ==
    {Arr(q) : q \in SeqsUpTo(NestedRecipes \cup {OtherObject}
                             \cup {Obj("WebPage", JsonNull, JsonNull, Arr(<<x>>)) :
                                     x \in NestedRecipes}, MaxItems)}

\* textContent of a JSON-LD script: nothing, text that is not JSON, or JSON
ScriptContents ==
    {[t |-> "empty"], [t |-> "not_json"], Str(<<"a">>)}
    \cup RecipeObjects \cup GraphObjects \cup JsonArrays

\* Text of the body, as Readability or body.textContent give it
BodyTexts == {<< >>, <<" ", "B", " ">>}

InitExtract ==
    /\ AtRest
    /\ \E scripts \in SeqsUpTo(ScriptContents, MaxScripts), article \in BodyTexts,
          bodyText \in BodyTexts :
         /\ scripts # << >>
         /\ call = [op |-> "extractContent", scripts |-> scripts, article |-> article,
                    bodyText |-> bodyText, pc |-> "start",
                    result |-> ContentExtractError("")]

\* part_005:194   const contentResult = extractContent(fetchResult.html, ...)
ExtractContentCall ==
    /\ call.op = "extractContent" /\ call.pc = "start"
    /\ call' = [call EXCEPT !.pc = "done",
                            !.result = extractContent(call.scripts, call.article,
                                                      call.bodyText)]
    /\ UNCHANGED route

NextExtract == ExtractContentCall

SpecExtract == InitExtract /\ [][NextExtract]_vars

\* The Recipe objects of a JSON value in document order, through arrays and
\* @graph wrappers.
RECURSIVE Candidates(_)
RECURSIVE CandidatesIn(_)
Candidates(data) ==
    IF data.t = "array" THEN CandidatesIn(data.items)
    ELSE IF data.t # "object" THEN << >>
    ELSE IF data.type \in {"Recipe", "[Article,Recipe]"} THEN <<data>>
    ELSE IF data.graph.t = "array" THEN CandidatesIn(data.graph.items)
    ELSE << >>
CandidatesIn(items) ==
    IF items = << >> THEN << >> ELSE Candidates(items[1]) \o CandidatesIn(Tail(items))

\* The ingredient lines of a Recipe: its string entries that hold more than
\* white space, without the white space around them, in order.
IngredientLines(obj) ==
    IF obj.recipeIngredient.t # "array" THEN << >>
    ELSE LET HasText(v) == v.t = "string" /\ \E k \in 1..Len(v.s) : ~IsSpace(v.s[k])
             kept == SelectSeq(obj.recipeIngredient.items, HasText)
         IN  [i \in 1..Len(kept) |-> trim(kept[i].s)]

UsableRecipes(scripts) ==
    LET HasLines(obj) == IngredientLines(obj) # << >>
    IN  SelectSeq(CandidatesIn(scripts), HasLines)

\* The lines of a text.
RECURSIVE Lines(_, _)
Lines(text, line) ==
    IF text = << >> THEN <<line>>
    ELSE IF text[1] = "\n" THEN <<line>> \o Lines(Tail(text), << >>)
    ELSE Lines(Tail(text), Append(line, text[1]))

\* The bullets of a content: its lines that begin with "- ", without the mark.
Bullets(content) ==
    LET IsBullet(l) == Len(l) >= 2 /\ l[1] = "-" /\ l[2] = " "
        marked == SelectSeq(Lines(content, << >>), IsBullet)
    IN  [i \in 1..Len(marked) |-> SubSeq(marked[i], 3, Len(marked[i]))]

Extracted == call.op = "extractContent" /\ call.pc = "done"

\* C18: when a JSON-LD block of the document holds a Recipe with a non-empty
\* ingredient list, the content returned is the tier-1 content of the first
\* such Recipe: its bullets are exactly that Recipe's trimmed non-empty string
\* ingredients, in order, and nothing of the document body is in it.
C18_StructuredDataOnly ==
    (Extracted /\ UsableRecipes(call.scripts) # << >>)
        => /\ call.result.ok
           /\ Bullets(call.result.content) = IngredientLines(UsableRecipes(call.scripts)[1])
           /\ \A k \in 1..Len(call.result.content) : call.result.content[k] # "B"

\* ------------------------------------------------------ response validator
\* part_004:8-132.  The text of the AI is a sequence of pieces: a run of
\* three backticks, the word json, a blank, a line break, any other
\* character, or the text of one complete JSON value.

MaxListed == 2         \* most entries of an ingredients array

NoValue == [k |-> "none", recipeName |-> "", servings |-> "", ingredients |-> "", items |-> << >>]
Piece(t) == [t |-> t, v |-> NoValue]
Fence == Piece("fence")
JsonTag == Piece("json")
JsonText(v) == [t |-> "value", v |-> v]

IsBlankPiece(c) == c.t \in {" ", "\n"}

\* String.prototype.trim, and \s* at either end of a match
RECURSIVE trimPiecesStart(_)
trimPiecesStart(q) ==
    IF q # << >> /\ IsBlankPiece(q[1]) THEN trimPiecesStart(Tail(q)) ELSE q
RECURSIVE trimPiecesEnd(_)
trimPiecesEnd(q) ==
    IF q # << >> /\ IsBlankPiece(q[Len(q)])
    THEN trimPiecesEnd(SubSeq(q, 1, Len(q) - 1)) ELSE q
trimPieces(q) == trimPiecesEnd(trimPiecesStart(q))

\* the fence is taken off only when the json tag follows it
stripMarkdownCodeBlocksTagged(content) ==
    IF Len(content) >= 3 /\ content[1] = Fence /\ content[2] = JsonTag
       /\ content[Len(content)] = Fence
    THEN trimPieces(SubSeq(content, 3, Len(content) - 1))
    ELSE trimPieces(content)

\* part_004:122-132   stripMarkdownCodeBlocks:
\* the match of the pattern of line 126, then trim.  The
\* pattern is anchored at both ends, so the closing fence is the last piece
\* and the group is what lies between, without the tag and the blanks.
stripMarkdownCodeBlocks(content) ==
    IF Len(content) >= 2 /\ content[1] = Fence /\ content[Len(content)] = Fence
    THEN LET inner == SubSeq(content, 2, Len(content) - 1)
         IN  trimPieces(IF inner # << >> /\ inner[1] = JsonTag THEN Tail(inner) ELSE inner)
    ELSE trimPieces(content)

\* JSON.parse: does the text parse, and to what.  Blanks and line breaks
\* around one value are allowed, anything else is a SyntaxError.
jsonParses(text) == Len(trimPieces(text)) = 1 /\ trimPieces(text)[1].t = "value"
jsonParse(text) == trimPieces(text)[1].v

\* part_004:13-25
Categories == {"Produce", "Deli", "Dairy", "Bakery", "Frozen", "Pantry", "Beverages",
               "Snacks", "Health & Beauty", "Household", "Other"}

\* the category is not looked at
ingredientIssuesNoCategory(item) ==
    IF item.k # "object" THEN {"ingredient"}
    ELSE (IF item.name # "string" THEN {"name"} ELSE {})
         \cup (IF item.quantity \notin {"number", "null"} THEN {"quantity"} ELSE {})
         \cup (IF item.unit \notin {"string", "empty", "null"} THEN {"unit"} ELSE {})
         \cup (IF item.notes \notin {"string", "empty", "null"} THEN {"notes"} ELSE {})

\* part_004:8-26   aiIngredientSchema: the fields at fault.  A field is
\* "string" (not empty), "empty" (the empty string), "number", "null" or
\* "missing"; category holds the text itself.
ingredientIssues(item) ==
    IF item.k # "object" THEN {"ingredient"}
    ELSE (IF item.name # "string" THEN {"name"} ELSE {})
         \cup (IF item.quantity \notin {"number", "null"} THEN {"quantity"} ELSE {})
         \cup (IF item.unit \notin {"string", "empty", "null"} THEN {"unit"} ELSE {})
         \cup (IF item.notes \notin {"string", "empty", "null"} THEN {"notes"} ELSE {})
         \cup (IF item.category \notin Categories THEN {"category"} ELSE {})

IssueFields == {"ingredient", "name", "quantity", "unit", "notes", "category"}

\* part_004:28-32, 94-99   aiExtractionSchema.safeParse: the issue paths
safeParse(v) ==
    IF v.k # "object" THEN {<<"">>}
    ELSE (IF v.recipeName \notin {"string", "empty", "null"} THEN {<<"recipeName">>} ELSE {})
         \cup (IF v.servings \notin {"string", "empty", "null"} THEN {<<"servings">>} ELSE {})
         \cup (IF v.ingredients # "array" THEN {<<"ingredients">>}
               ELSE {<<"ingredients", p[1], p[2]>> :
                        p \in {q \in (1..Len(v.items)) \X IssueFields :
                                 q[2] \in ingredientIssues(v.items[q[1]])}})

Parsed(v) == [ok |-> TRUE, code |-> "", extraction |-> v, issues |-> {}]
AIExtractError(code, issues) ==
    [ok |-> FALSE, code |-> code, extraction |-> NoValue, issues |-> issues]

\* part_004:70-116   parseAIResponse on the text of the AI
parseAIResponseText(content) ==
    IF trimPieces(content) = << >> THEN AIExtractError("empty_response", {})
    ELSE LET cleanedContent == stripMarkdownCodeBlocks(trimPieces(content))
         IN  IF ~jsonParses(cleanedContent) THEN AIExtractError("json_parse_error", {})
             ELSE IF safeParse(jsonParse(cleanedContent)) # {}
             THEN AIExtractError("schema_validation_error",
                                 safeParse(jsonParse(cleanedContent)))
             ELSE Parsed(jsonParse(cleanedContent))

Ingredient(name, quantity, unit, notes, category) ==
    [k |-> "object", name |-> name, quantity |-> quantity, unit |-> unit, notes |-> notes,
     category |-> category]

\* Entries of an ingredients array: two that conform, and one each with no
\* category, a category outside the enum, an empty name, a quantity that is
\* a string, and an entry that is no object.
IngredientSamples ==
    {Ingredient("string", "number", "string", "null", "Produce"),
     Ingredient("string", "null", "null", "empty", "Other"),
     Ingredient("string", "number", "string", "null", "missing"),
     Ingredient("string", "number", "string", "null", "produce"),
     Ingredient("empty", "number", "string", "null", "Dairy"),
     Ingredient("string", "string", "string", "null", "Pantry"),
     [Ingredient("", "", "", "", "") EXCEPT !.k = "string"]}

JsonValues ==
    {[k |-> "object", recipeName |-> rn, servings |-> sv, ingredients |-> "array",
      items |-> q] :
        rn \in {"string", "null", "missing"}, sv \in {"null", "number"},
        q \in SeqsUpTo(IngredientSamples, MaxListed)}
    \cup {[k |-> "object", recipeName |-> "string", servings |-> "string",
           ingredients |-> i, items |-> << >>] : i \in {"missing", "string"}}
    \cup {[NoValue EXCEPT !.k = k] : k \in {"array", "number", "null", "string"}}

\* What stands before, in and after the body of a text
TextHeads == {<< >>, <<Piece(" ")>>, <<Fence>>, <<Fence, JsonTag>>, <<Fence, Piece("\n")>>,
              <<Fence, JsonTag, Piece("\n")>>, <<Piece("\n"), Fence, JsonTag, Piece(" ")>>,
              <<Piece("x")>>, <<JsonTag>>}
TextBodies == {<< >>, <<Piece("x")>>} \cup {<<JsonText(v)>> : v \in JsonValues}
TextTails == {<< >>, <<Piece("\n")>>, <<Fence>>, <<Piece("\n"), Fence>>,
              <<Piece("\n"), Fence, Piece(" ")>>, <<Piece("x")>>}

Texts == {h \o b \o t : h \in TextHeads, b \in TextBodies, t \in TextTails}

\* x wrapped in one markdown code fence, with or without the json tag
Wrap(x, tag) ==
    <<Fence>> \o (IF tag THEN <<JsonTag>> ELSE << >>) \o <<Piece("\n")>> \o x
    \o <<Piece("\n"), Fence>>

NotParsed == AIExtractError("", {})

InitParse ==
    /\ AtRest
    /\ \E x \in Texts, tag \in BOOLEAN :
         call = [op |-> "parseAIResponse", text |-> x, tag |-> tag,
                 plainDone |-> FALSE, plain |-> NotParsed,
                 fencedDone |-> FALSE, fenced |-> NotParsed]

\* part_005:224   parseAIResponse(aiResult) on the text as it is
ParsePlain ==
    /\ call.op = "parseAIResponse" /\ ~call.plainDone
    /\ call' = [call EXCEPT !.plainDone = TRUE, !.plain = parseAIResponseText(call.text)]
    /\ UNCHANGED route

\* part_005:224   parseAIResponse(aiResult) on the text within a fence
ParseFenced ==
    /\ call.op = "parseAIResponse" /\ ~call.fencedDone
    /\ call' = [call EXCEPT !.fencedDone = TRUE,
                            !.fenced = parseAIResponseText(Wrap(call.text, call.tag))]
    /\ UNCHANGED route

NextParse == ParsePlain \/ ParseFenced

SpecParse == InitParse /\ [][NextParse]_vars

BothParsed == call.op = "parseAIResponse" /\ call.plainDone /\ call.fencedDone

IsBlank(x) == \A i \in 1..Len(x) : x[i].t \in {" ", "\n"}

\* The text opens and closes with a fence of its own.
IsFenced(x) ==
    LET y == trimPieces(x)
    IN  Len(y) >= 2 /\ y[1].t = "fence" /\ y[Len(y)].t = "fence"

\* C19 as stated: for every text x the validator gives the same result for x
\* and for x wrapped in one code fence, with or without the json tag.
C19_FenceTransparent ==
    BothParsed => call.plain = call.fenced

\* C19, amended: for every text x that is not empty or white space and does
\* not itself open and close with a code fence, the validator gives the same
\* result (the same extraction, or the same error kind) for x as for x wrapped
\* in one code fence, with or without the json tag.
C19_FenceTransparentForBareText ==
    (BothParsed /\ ~IsBlank(call.text) /\ ~IsFenced(call.text))
        => call.plain = call.fenced

\* A bare text with blanks around an extraction of two ingredients parsed to
\* the same extraction within a fence with the json tag.
C19_Witness ==
    /\ BothParsed /\ call.tag /\ ~IsFenced(call.text)
    /\ call.text # << >> /\ call.text[1].t = " "
    /\ call.plain.ok /\ call.fenced.ok
    /\ Len(call.plain.extraction.items) = MaxListed

\* The text without the fence around it, if it has one.
DeFenced(x) ==
    LET y == trimPieces(x)
    IN  IF IsFenced(x)
        THEN LET inner == SubSeq(y, 2, Len(y) - 1)
             IN  IF inner # << >> /\ inner[1].t = "json" THEN Tail(inner) ELSE inner
        ELSE y

\* The text is JSON: one value, with blanks or line breaks around it at most.
IsJson(x) == \E i \in 1..Len(x) : x[i].t = "value" /\ \A n \in 1..Len(x) : n # i => IsBlankPiece(x[n])
JsonOf(x) == x[CHOOSE i \in 1..Len(x) : x[i].t = "value"].v

\* The value has the shape of an extraction: recipeName and servings are a
\* string or null, ingredients is an array, and every entry is an object with
\* a non-empty name, a number or null as quantity, a string or null as unit
\* and as notes, and a category of the enum.
Conforms(v) ==
    /\ v.k = "object"
    /\ v.recipeName \in {"string", "empty", "null"}
    /\ v.servings \in {"string", "empty", "null"}
    /\ v.ingredients = "array"
    /\ \A i \in 1..Len(v.items) :
         /\ v.items[i].k = "object"
         /\ v.items[i].name = "string"
         /\ v.items[i].quantity \in {"number", "null"}
         /\ v.items[i].unit \in {"string", "empty", "null"}
         /\ v.items[i].notes \in {"string", "empty", "null"}
         /\ v.items[i].category \in Categories

UpperCase == <<"A", "B", "C", "D", "E", "F", "G", "H", "I", "J", "K", "L", "M", "N", "O", "P",
               "Q", "R", "S", "T", "U", "V", "W", "X", "Y", "Z">>
LowerCase == <<"a", "b", "c", "d", "e", "f", "g", "h", "i", "j", "k", "l", "m", "n", "o", "p",
               "q", "r", "s", "t", "u", "v", "w", "x", "y", "z">>

\* String.prototype.toLowerCase and toUpperCase
toLowerCase(q) ==
    [i \in 1..Len(q) |->
        IF \E n \in 1..Len(UpperCase) : UpperCase[n] = q[i]
        THEN LowerCase[CHOOSE n \in 1..Len(UpperCase) : UpperCase[n] = q[i]] ELSE q[i]]
toUpperCase(q) ==
    [i \in 1..Len(q) |->
        IF \E n \in 1..Len(LowerCase) : LowerCase[n] = q[i]
        THEN UpperCase[CHOOSE n \in 1..Len(LowerCase) : LowerCase[n] = q[i]] ELSE q[i]]

\* replace(/\s+/g, ' ')
RECURSIVE collapse(_)
collapse(q) ==
    IF q = << >> THEN << >>
    ELSE IF IsSpace(q[1])
    THEN <<" ">> \o collapse(trimStart(q))
    ELSE <<q[1]>> \o collapse(Tail(q))

\* normalizeIngredients.ts:99-101   value.trim().replace(/\s+/g, ' ')
normalizeWhitespace(value) == collapse(trim(value))

\* normalizeIngredients.ts:8-93   the own properties of UNIT_MAPPINGS
UNIT_MAPPINGS ==
    {
     <<<<"t", "a", "b", "l", "e", "s", "p", "o", "o", "n">>, <<"t", "b", "s", "p">>>>,
     <<<<"t", "a", "b", "l", "e", "s", "p", "o", "o", "n", "s">>, <<"t", "b", "s", "p">>>>,
     <<<<"t", "b", "s", "p">>, <<"t", "b", "s", "p">>>>,
     <<<<"t", "b", "s">>, <<"t", "b", "s", "p">>>>,
     <<<<"t", "b">>, <<"t", "b", "s", "p">>>>,
     <<<<"t", "e", "a", "s", "p", "o", "o", "n">>, <<"t", "s", "p">>>>,
     <<<<"t", "e", "a", "s", "p", "o", "o", "n", "s">>, <<"t", "s", "p">>>>,
     <<<<"t", "s", "p">>, <<"t", "s", "p">>>>,
     <<<<"c", "u", "p">>, <<"c", "u", "p">>>>,
     <<<<"c", "u", "p", "s">>, <<"c", "u", "p">>>>,
     <<<<"c">>, <<"c", "u", "p">>>>,
     <<<<"p", "i", "n", "t">>, <<"p", "i", "n", "t">>>>,
     <<<<"p", "i", "n", "t", "s">>, <<"p", "i", "n", "t">>>>,
     <<<<"p", "t">>, <<"p", "i", "n", "t">>>>,
     <<<<"q", "u", "a", "r", "t">>, <<"q", "u", "a", "r", "t">>>>,
     <<<<"q", "u", "a", "r", "t", "s">>, <<"q", "u", "a", "r", "t">>>>,
     <<<<"q", "t">>, <<"q", "u", "a", "r", "t">>>>,
     <<<<"g", "a", "l", "l", "o", "n">>, <<"g", "a", "l", "l", "o", "n">>>>,
     <<<<"g", "a", "l", "l", "o", "n", "s">>, <<"g", "a", "l", "l", "o", "n">>>>,
     <<<<"g", "a", "l">>, <<"g", "a", "l", "l", "o", "n">>>>,
     <<<<"l", "i", "t", "e", "r">>, <<"l", "i", "t", "e", "r">>>>,
     <<<<"l", "i", "t", "e", "r", "s">>, <<"l", "i", "t", "e", "r">>>>,
     <<<<"l", "i", "t", "r", "e">>, <<"l", "i", "t", "e", "r">>>>,
     <<<<"l", "i", "t", "r", "e", "s">>, <<"l", "i", "t", "e", "r">>>>,
     <<<<"l">>, <<"l", "i", "t", "e", "r">>>>,
     <<<<"m", "i", "l", "l", "i", "l", "i", "t", "e", "r">>, <<"m", "l">>>>,
     <<<<"m", "i", "l", "l", "i", "l", "i", "t", "e", "r", "s">>, <<"m", "l">>>>,
     <<<<"m", "i", "l", "l", "i", "l", "i", "t", "r", "e">>, <<"m", "l">>>>,
     <<<<"m", "i", "l", "l", "i", "l", "i", "t", "r", "e", "s">>, <<"m", "l">>>>,
     <<<<"m", "l">>, <<"m", "l">>>>,
     <<<<"f", "l", "u", "i", "d", " ", "o", "u", "n", "c", "e">>, <<"f", "l", " ", "o", "z">>>>,
     <<<<"f", "l", "u", "i", "d", " ", "o", "u", "n", "c", "e", "s">>, <<"f", "l", " ", "o", "z">>>>,
     <<<<"f", "l", " ", "o", "z">>, <<"f", "l", " ", "o", "z">>>>,
     <<<<"f", "l", "o", "z">>, <<"f", "l", " ", "o", "z">>>>,
     <<<<"p", "o", "u", "n", "d">>, <<"l", "b">>>>,
     <<<<"p", "o", "u", "n", "d", "s">>, <<"l", "b">>>>,
     <<<<"l", "b">>, <<"l", "b">>>>,
     <<<<"l", "b", "s">>, <<"l", "b">>>>,
     <<<<"o", "u", "n", "c", "e">>, <<"o", "z">>>>,
     <<<<"o", "u", "n", "c", "e", "s">>, <<"o", "z">>>>,
     <<<<"o", "z">>, <<"o", "z">>>>,
     <<<<"g", "r", "a", "m">>, <<"g">>>>,
     <<<<"g", "r", "a", "m", "s">>, <<"g">>>>,
     <<<<"g">>, <<"g">>>>,
     <<<<"k", "i", "l", "o", "g", "r", "a", "m">>, <<"k", "g">>>>,
     <<<<"k", "i", "l", "o", "g", "r", "a", "m", "s">>, <<"k", "g">>>>,
     <<<<"k", "g">>, <<"k", "g">>>>,
     <<<<"c", "l", "o", "v", "e">>, <<"c", "l", "o", "v", "e">>>>,
     <<<<"c", "l", "o", "v", "e", "s">>, <<"c", "l", "o", "v", "e">>>>,
     <<<<"p", "i", "e", "c", "e">>, <<"p", "i", "e", "c", "e">>>>,
     <<<<"p", "i", "e", "c", "e", "s">>, <<"p", "i", "e", "c", "e">>>>,
     <<<<"s", "l", "i", "c", "e">>, <<"s", "l", "i", "c", "e">>>>,
     <<<<"s", "l", "i", "c", "e", "s">>, <<"s", "l", "i", "c", "e">>>>,
     <<<<"c", "a", "n">>, <<"c", "a", "n">>>>,
     <<<<"c", "a", "n", "s">>, <<"c", "a", "n">>>>,
     <<<<"p", "a", "c", "k", "a", "g", "e">>, <<"p", "a", "c", "k", "a", "g", "e">>>>,
     <<<<"p", "a", "c", "k", "a", "g", "e", "s">>, <<"p", "a", "c", "k", "a", "g", "e">>>>,
     <<<<"p", "k", "g">>, <<"p", "a", "c", "k", "a", "g", "e">>>>,
     <<<<"b", "u", "n", "c", "h">>, <<"b", "u", "n", "c", "h">>>>,
     <<<<"b", "u", "n", "c", "h", "e", "s">>, <<"b", "u", "n", "c", "h">>>>,
     <<<<"h", "e", "a", "d">>, <<"h", "e", "a", "d">>>>,
     <<<<"h", "e", "a", "d", "s">>, <<"h", "e", "a", "d">>>>,
     <<<<"s", "p", "r", "i", "g">>, <<"s", "p", "r", "i", "g">>>>,
     <<<<"s", "p", "r", "i", "g", "s">>, <<"s", "p", "r", "i", "g">>>>,
     <<<<"s", "t", "a", "l", "k">>, <<"s", "t", "a", "l", "k">>>>,
     <<<<"s", "t", "a", "l", "k", "s">>, <<"s", "t", "a", "l", "k">>>>,
     <<<<"s", "t", "i", "c", "k">>, <<"s", "t", "i", "c", "k">>>>,
     <<<<"s", "t", "i", "c", "k", "s">>, <<"s", "t", "i", "c", "k">>>>,
     <<<<"d", "a", "s", "h">>, <<"d", "a", "s", "h">>>>,
     <<<<"d", "a", "s", "h", "e", "s">>, <<"d", "a", "s", "h">>>>,
     <<<<"p", "i", "n", "c", "h">>, <<"p", "i", "n", "c", "h">>>>,
     <<<<"p", "i", "n", "c", "h", "e", "s">>, <<"p", "i", "n", "c", "h">>>>,
     <<<<"h", "a", "n", "d", "f", "u", "l">>, <<"h", "a", "n", "d", "f", "u", "l">>>>,
     <<<<"h", "a", "n", "d", "f", "u", "l", "s">>, <<"h", "a", "n", "d", "f", "u", "l">>>>,
     <<<<"s", "m", "a", "l", "l">>, <<"s", "m", "a", "l", "l">>>>,
     <<<<"m", "e", "d", "i", "u", "m">>, <<"m", "e", "d", "i", "u", "m">>>>,
     <<<<"l", "a", "r", "g", "e">>, <<"l", "a", "r", "g", "e">>>>
    }

\* What UNIT_MAPPINGS inherits from Object.prototype under a lower-case name
InheritedNames == {<<"c", "o", "n", "s", "t", "r", "u", "c", "t", "o", "r">>,
                   <<"_", "_", "p", "r", "o", "t", "o", "_", "_">>}

JsNull == [t |-> "null", s |-> << >>]
JsString(q) == [t |-> "string", s |-> q]
JsObject == [t |-> "object", s |-> << >>]
TypeError == [t |-> "TypeError", s |-> << >>]

\* normalizeIngredients.ts:119   UNIT_MAPPINGS[cleaned] ?? cleaned: a property
\* read finds own and inherited properties
unitLookup(cleaned) ==
    IF \E p \in UNIT_MAPPINGS : p[1] = cleaned
    THEN JsString((CHOOSE p \in UNIT_MAPPINGS : p[1] = cleaned)[2])
    ELSE IF cleaned \in InheritedNames THEN JsObject
    ELSE JsString(cleaned)

\* normalizeIngredients.ts:107-120   normalizeUnit; a value that is neither
\* null nor a string has no toLowerCase
normalizeUnit(unit) ==
    IF unit.t = "null" THEN JsNull
    ELSE IF unit.t # "string" THEN TypeError
    ELSE LET cleaned == normalizeWhitespace(toLowerCase(unit.s))
         IN  IF Len(cleaned) = 0 THEN JsNull ELSE unitLookup(cleaned)

\* Units as the AI may write them: every key of the table, the names the
\* table inherits, a unit the table does not hold, and the empty string
UnitBases ==
    {p[1] : p \in UNIT_MAPPINGS} \cup InheritedNames
    \cup {<<"d", "o", "z", "e", "n">>, << >>}

\* each white-space character becomes a run
RECURSIVE stretch(_)
stretch(q) ==
    IF q = << >> THEN << >>
    ELSE (IF IsSpace(q[1]) THEN <<" ", "\t", " ">> ELSE <<q[1]>>) \o stretch(Tail(q))

\* The same unit in another letter case and with other white space
Vary(q, case, space) ==
    LET cased == IF case = "upper" THEN toUpperCase(q)
                 ELSE IF case = "title" /\ q # << >>
                 THEN toUpperCase(<<q[1]>>) \o Tail(q)
                 ELSE q
    IN  IF space = "around" THEN <<" ", "\t">> \o cased \o <<"\n">>
        ELSE IF space = "runs" THEN stretch(cased)
        ELSE cased

InitUnit ==
    /\ AtRest
    /\ \E u \in UnitBases, case \in {"same", "upper", "title"},
          space \in {"same", "around", "runs"} :
         call = [op |-> "normalizeUnit", u |-> u, v |-> Vary(u, case, space),
                 onceDone |-> FALSE, once |-> JsNull,
                 againDone |-> FALSE, again |-> JsNull,
                 variedDone |-> FALSE, varied |-> JsNull]

\* normalizeIngredients.ts:150   normalizeUnit(u)
UnitOnce ==
    /\ call.op = "normalizeUnit" /\ ~call.onceDone
    /\ call' = [call EXCEPT !.onceDone = TRUE, !.once = normalizeUnit(JsString(call.u))]
    /\ UNCHANGED route

\* normalizeUnit applied to its own result
UnitAgain ==
    /\ call.op = "normalizeUnit" /\ call.onceDone /\ ~call.againDone
    /\ call' = [call EXCEPT !.againDone = TRUE, !.again = normalizeUnit(call.once)]
    /\ UNCHANGED route

\* normalizeUnit applied to the same unit in other case and white space
UnitVaried ==
    /\ call.op = "normalizeUnit" /\ ~call.variedDone
    /\ call' = [call EXCEPT !.variedDone = TRUE, !.varied = normalizeUnit(JsString(call.v))]
    /\ UNCHANGED route

NextUnit == UnitOnce \/ UnitAgain \/ UnitVaried

SpecUnit == InitUnit /\ [][NextUnit]_vars

CanonicalTokens == {p[2] : p \in UNIT_MAPPINGS}

\* C21: normalizeUnit is idempotent, gives the same result for inputs that
\* differ only in letter case or white space, and maps every canonical token
\* of the table to itself.
C21_UnitIdempotentCaseBlind ==
    call.op = "normalizeUnit" =>
        /\ (call.onceDone /\ call.againDone) => call.again = call.once
        /\ (call.onceDone /\ call.variedDone) => call.varied = call.once
        /\ (call.onceDone /\ call.u \in CanonicalTokens) => call.once = JsString(call.u)

MaxNormalized == 2     \* most ingredients of an extraction that is normalized

JsNumber(n) == [t |-> "number", n |-> n]
NoNumber == [t |-> "null", n |-> 0]

\* normalizeIngredients.ts:126-128   normalizeIngredientName
normalizeIngredientName(name) == toLowerCase(normalizeWhitespace(name))

\* normalizeIngredients.ts:134-141   normalizeNotes
normalizeNotes(notes) ==
    IF notes.t = "null" THEN JsNull
    ELSE IF Len(normalizeWhitespace(notes.s)) = 0 THEN JsNull
    ELSE JsString(normalizeWhitespace(notes.s))

\* normalizeIngredients.ts:146-153   normalizeIngredient: the object it
\* returns has these four properties
normalizeIngredient(ingredient) ==
    [name |-> normalizeIngredientName(ingredient.name.s),
     quantity |-> ingredient.quantity,
     unit |-> normalizeUnit(ingredient.unit),
     notes |-> normalizeNotes(ingredient.notes)]

\* normalizeIngredients.ts:159-179   normalizeRecipeName, normalizeServings
normalizeRecipeName(name) == normalizeNotes(name)

\* normalizeIngredients.ts:189-199   normalizeExtraction on the whole value
normalizeExtractionValue(extraction, sourceUrl) ==
    [sourceUrl |-> sourceUrl,
     recipeName |-> normalizeRecipeName(extraction.recipeName),
     servings |-> normalizeRecipeName(extraction.servings),
     ingredients |-> [i \in 1..Len(extraction.ingredients) |->
                        normalizeIngredient(extraction.ingredients[i])]]

\* How aiIngredientSchema sees a value: the kinds of part_004:8-26
FieldKind(v) ==
    IF v.t = "string" THEN (IF Len(v.s) = 0 THEN "empty" ELSE "string") ELSE v.t
KindsOf(ingredient) ==
    Ingredient(FieldKind(ingredient.name), ingredient.quantity.t, FieldKind(ingredient.unit),
               FieldKind(ingredient.notes), ingredient.category)

\* Ingredients as the AI may give them: names in mixed case, with white
\* space around and inside, of white space only, and empty; quantities
\* absent, zero, positive and negative; a category within the enum
AIIngredients ==
    {[name |-> JsString(nm), quantity |-> q, unit |-> u, notes |-> nt, category |-> c] :
        nm \in {<<"E", "g", "g">>, <<" ", "o", "l", "i", "v", "e", " ", "\t", "O", "i", "l", "\n">>,
                <<" ">>, << >>},
        q \in {NoNumber, JsNumber(0), JsNumber(2), JsNumber(-1)},
        u \in {JsNull, JsString(<<"T", "b", "s">>)},
        nt \in {JsNull, JsString(<<" ", "D", "i", "c", "e", "d", " ">>)},
        c \in {"Dairy", "Other"}}

\* part_004:94-107   those that aiIngredientSchema accepts
AcceptedIngredients == {g \in AIIngredients : ingredientIssues(KindsOf(g)) = {}}

InitNormalize ==
    /\ AtRest
    /\ \E items \in SeqsUpTo(AcceptedIngredients, MaxNormalized),
          rn \in {JsNull, JsString(<<" ", "P", "i", "e">>)} :
         /\ items # << >>
         /\ call = [op |-> "normalizeExtraction",
                    extraction |-> [recipeName |-> rn, servings |-> JsNull,
                                    ingredients |-> items],
                    pc |-> "validated", status |-> 0,
                    body |-> normalizeExtractionValue(
                                [recipeName |-> JsNull, servings |-> JsNull,
                                 ingredients |-> << >>], "")]

\* part_005:243-246   const response = normalizeExtraction(extraction, rawUrl)
NormalizeExtractionCall ==
    /\ call.op = "normalizeExtraction" /\ call.pc = "validated"
    /\ call' = [call EXCEPT !.pc = "normalized",
                            !.body = normalizeExtractionValue(call.extraction, "url")]
    /\ UNCHANGED route

\* part_005:263   res.status(200).json(response)
SendResponse ==
    /\ call.op = "normalizeExtraction" /\ call.pc = "normalized"
    /\ call' = [call EXCEPT !.pc = "sent", !.status = 200]
    /\ UNCHANGED route

NextNormalize == NormalizeExtractionCall \/ SendResponse

SpecNormalize == InitNormalize /\ [][NextNormalize]_vars

Sent200 == call.op = "normalizeExtraction" /\ call.pc = "sent" /\ call.status = 200

\* C22: every ingredient of the normalized result has a name that is not
\* empty, is lower case, and has no leading, trailing or repeated white space.
C22_NamesNormalized ==
    Sent200 =>
        \A i \in 1..Len(call.body.ingredients) :
            LET name == call.body.ingredients[i].name
            IN  /\ name # << >>
                /\ name = toLowerCase(name)
                /\ ~IsSpace(name[1]) /\ ~IsSpace(name[Len(name)])
                /\ \A k \in 1..Len(name) : IsSpace(name[k]) => name[k] = " "
                /\ \A k \in 1..(Len(name) - 1) : ~(IsSpace(name[k]) /\ IsSpace(name[k + 1]))

\* C23: every ingredient of a 200 response carries a category, that of the
\* corresponding ingredient of the validated extraction and one of the enum;
\* the ingredients keep their order and number.
C23_CategoryCarried ==
    Sent200 =>
        /\ Len(call.body.ingredients) = Len(call.extraction.ingredients)
        /\ \A i \in 1..Len(call.body.ingredients) :
             /\ "category" \in DOMAIN call.body.ingredients[i]
             /\ call.body.ingredients[i].category = call.extraction.ingredients[i].category
             /\ call.body.ingredients[i].category \in Categories

\* C24: every quantity of the normalized result is null or a finite number
\* not below zero, with 0 kept as 0 and null kept as null.
C24_QuantityNonNegative ==
    Sent200 =>
        \A i \in 1..Len(call.body.ingredients) :
            LET q == call.body.ingredients[i].quantity
            IN  /\ q = call.extraction.ingredients[i].quantity
                /\ q.t = "null" \/ (q.t = "number" /\ q.n >= 0)


\* ------------------------------------------- rate limiter, its configuration
\* rateLimit.ts:60-64   RateLimitConfig.windowMs: the window lengths a caller
\* of createRateLimitMiddleware configures (milliseconds); 60000 is the
\* default of rateLimit.ts:68.
WindowLengths == {30 * 1000, 60 * 1000, 120 * 1000}

\* rateLimit.ts:83-86   createRateLimitMiddleware(config): the configuration
\* after { ...defaultConfig, ...config }.  The middleware takes maxRequests
\* and store out of it; windowMs stays in the configuration.
RateLimitConfig(windowMs) == [op |-> "createRateLimitMiddleware", windowMs |-> windowMs]

\* A rate limiter constructed with a window length of the caller's choice.
InitWindow ==
    /\ now = 0
    /\ ticks = 0
    /\ arrivals = 0
    /\ maxRequests \in 1..MaxLimit
    /\ entries = [k \in Keys |-> NoEntry]
    /\ heap = << >>
    /\ win = [u \in Users |-> NoWindow]
    /\ req = [r \in Slots |-> IdleRequest]
    /\ call \in {RateLimitConfig(w) : w \in WindowLengths}

\* The requests of one identity through the configured limiter, one after
\* the other or overlapping, while the clock advances.
NextWindow ==
    \/ \E d \in TickSteps : (Suspended => d = 1) /\ Tick(d)
    \/ \E r \in Slots : Arrive(r, "u1", "missing")
    \/ \E r \in Slots : Auth(r)
    \/ \E r \in Slots : RateLimitCall(r)
    \/ \E r \in Slots : RateLimitResume(r)
    \/ \E r \in Slots : HandlerStart(r)
    \/ \E r \in Slots : ErrorMiddleware(r)

SpecWindow == InitWindow /\ [][NextWindow]_vars

\* C25: for a rate limiter configured with window length W (any W, not only
\* the default of 60 s), every fresh window is created with resetAt =
\* creation time + W, and the X-RateLimit-Reset and Retry-After values
\* given to the caller are a number of seconds inside that W.
C25_ConfiguredWindowLength ==
    \A r \in Slots :
        /\ (req[r].held # NoEntry /\ req[r].first = 1) =>
               heap[req[r].held].resetAt = req[r].incAt + call.windowMs
        /\ Decided(r) => req[r].reset <= Ceil(call.windowMs, 1000)
        /\ req[r].gate = "denied" => req[r].retryAfter <= Ceil(call.windowMs, 1000)


\* ------------------------------------------- rate limiters and their stores
MaxLimiters == 2         \* rate limiters constructed by createRateLimitMiddleware
MaxLimiterRequests == 3  \* requests handled by the constructed limiters

\* rateLimit.ts:19   const entries = new Map(): the table of a new store
EmptyTable == [k \in Keys |-> [count |-> 0, resetAt |-> 0]]

\* the increment of a sliding window: every request moves resetAt
incrementTableSliding(table, key, t) ==
    [table EXCEPT ![key] =
        [count |-> IF table[key].count = 0 \/ table[key].resetAt <= t THEN 1 ELSE @.count + 1,
         resetAt |-> t + 60 * 1000]]

\* rateLimit.ts:36-53   increment on a table given by value; an entry with
\* count 0 is a key the Map does not hold
incrementTable(table, key, t) ==
    IF table[key].count = 0 \/ table[key].resetAt <= t
    THEN [table EXCEPT ![key] = [count |-> 1, resetAt |-> t + 60 * 1000]]
    ELSE [table EXCEPT ![key].count = @ + 1]

\* rateLimit.ts:66-70   defaultConfig is built once, when the module is
\* loaded: its store is the first store of the process.
defaultConfig == [maxRequests |-> MaxLimit, store |-> 1]

\* rateLimit.ts:86   { ...defaultConfig, ...config }.store: the store of the
\* configuration when the caller gave one, the store of defaultConfig
\* otherwise.  `created` is the store createMemoryStore() made for the caller.
configuredStore(injected, created) == IF injected THEN created ELSE defaultConfig.store

InitLimiters ==
    /\ AtRest
    /\ call = [op |-> "limiters", stores |-> <<EmptyTable>>, limiters |-> << >>,
               served |-> 0, last |-> [limiter |-> 0, count |-> 0, denied |-> FALSE]]

\* rateLimit.ts:83-86   createRateLimitMiddleware() or
\* createRateLimitMiddleware({ store: createMemoryStore() })
CreateLimiter(injected) ==
    /\ call.op = "limiters"
    /\ Len(call.limiters) < MaxLimiters
    /\ LET created == Len(call.stores) + 1 IN
       call' = [call EXCEPT
                  !.stores = IF injected THEN Append(@, EmptyTable) ELSE @,
                  !.limiters = Append(@, [store |-> configuredStore(injected, created),
                                          injected |-> injected,
                                          counted |-> [u \in Users |-> 0]])]
    /\ UNCHANGED route

\* rateLimit.ts:88-115   limiter l handles a request of user u: increment on
\* its store, then the decision on the count it was given
LimiterRequest(l, u) ==
    /\ call.op = "limiters"
    /\ l \in 1..Len(call.limiters)
    /\ call.served < MaxLimiterRequests
    /\ LET st    == call.limiters[l].store
           table == incrementTable(call.stores[st], RateKey(u), now)
           count == table[RateKey(u)].count
       IN call' = [call EXCEPT
                     !.stores[st] = table,
                     !.limiters[l].counted[u] = @ + 1,
                     !.served = @ + 1,
                     !.last = [limiter |-> l, count |-> count,
                               denied |-> overLimit(count, defaultConfig.maxRequests)]]
    /\ UNCHANGED route

NextLimiters ==
    \/ \E injected \in BOOLEAN : CreateLimiter(injected)
    \/ \E l \in 1..MaxLimiters, u \in Users : LimiterRequest(l, u)

SpecLimiters == InitLimiters /\ [][NextLimiters]_vars

\* The requests of user u that limiter l counted are what its table holds.
OwnCount(l, u) ==
    call.stores[call.limiters[l].store][RateKey(u)].count = call.limiters[l].counted[u]

\* C26: rate limiters are isolated: two limiters constructed separately,
\* each without an injected store, have a window table of their own that
\* starts empty, and the requests counted by one never change the count or
\* the allowed/denied result of the other.
C26_LimitersIsolated ==
    call.op = "limiters" =>
        /\ \A l1, l2 \in 1..Len(call.limiters) :
              (l1 # l2 /\ ~call.limiters[l1].injected /\ ~call.limiters[l2].injected)
              => call.limiters[l1].store # call.limiters[l2].store
        /\ \A l \in 1..Len(call.limiters), u \in Users :
              ~call.limiters[l].injected => OwnCount(l, u)
        /\ (call.last.limiter # 0 /\ ~call.limiters[call.last.limiter].injected) =>
              call.last.denied =
                 (\E u \in Users : call.limiters[call.last.limiter].counted[u] > MaxLimit)


\* ------------------------------------------------- the in-memory store alone
MaxStoreSteps == 4       \* clock advances, requests and cleanups of one store

\* the Map holds an entry for the key
Held(table, k) == table[k].count > 0

\* the cleanup that keeps an entry whose resetAt is the present instant
cleanupTableLate(table, t) ==
    [k \in Keys |-> IF Held(table, k) /\ table[k].resetAt < t
                    THEN EmptyTable[k] ELSE table[k]]

\* rateLimit.ts:22-32   the cleanup callback of setInterval, on a table
\* given by value
cleanupTable(table, t) ==
    [k \in Keys |-> IF Held(table, k) /\ table[k].resetAt <= t
                    THEN EmptyTable[k] ELSE table[k]]

NoOperation == [kind |-> "none", key |-> RateKey("u1"), denied |-> FALSE]

\* rateLimit.ts:18-33   createMemoryStore(): an empty table; `before` is the
\* table as the last operation found it
InitMemoryStore ==
    /\ AtRest
    /\ call = [op |-> "createMemoryStore", now |-> 0, steps |-> 0,
               table |-> EmptyTable, before |-> EmptyTable, last |-> NoOperation]

\* Date.now() advances between two operations of the store
StoreTick(d) ==
    /\ call.op = "createMemoryStore"
    /\ call.steps < MaxStoreSteps
    /\ call' = [call EXCEPT !.now = @ + d, !.steps = @ + 1,
                             !.before = call.table, !.last = NoOperation]
    /\ UNCHANGED route

\* rateLimit.ts:97-113   the middleware handles a request of user u:
\* store.increment(key), then the decision on the count
StoreRequest(u) ==
    /\ call.op = "createMemoryStore"
    /\ call.steps < MaxStoreSteps
    /\ LET table == incrementTable(call.table, RateKey(u), call.now) IN
       call' = [call EXCEPT
                  !.steps = @ + 1,
                  !.before = call.table,
                  !.table = table,
                  !.last = [kind |-> "increment", key |-> RateKey(u),
                            denied |-> overLimit(table[RateKey(u)].count, maxRequests)]]
    /\ UNCHANGED route

\* rateLimit.ts:22-32   the timer fires and the cleanup callback runs
StoreCleanup ==
    /\ call.op = "createMemoryStore"
    /\ call.steps < MaxStoreSteps
    /\ call' = [call EXCEPT
                  !.steps = @ + 1,
                  !.before = call.table,
                  !.table = cleanupTable(call.table, call.now),
                  !.last = [NoOperation EXCEPT !.kind = "cleanup"]]
    /\ UNCHANGED route

NextMemoryStore ==
    \/ \E d \in TickSteps : StoreTick(d)
    \/ \E u \in Users : StoreRequest(u)
    \/ StoreCleanup

SpecMemoryStore == InitMemoryStore /\ [][NextMemoryStore]_vars

\* The last operation of the store was the cleanup / a request.
Swept == call.op = "createMemoryStore" /\ call.last.kind = "cleanup"
Counted == call.op = "createMemoryStore" /\ call.last.kind = "increment"

\* the window of key k was open when the last operation ran
OpenBefore(k) == Held(call.before, k) /\ call.before[k].resetAt > call.now

\* C27: a sweep removes a window if and only if its resetAt has passed at
\* the time of the sweep: whatever requests ran before it, it deletes no
\* window that is still open, changes no window it keeps, and right after it
\* no expired window is left in the table.
C27_SweepRemovesExactlyExpired ==
    Swept =>
        \A k \in Keys :
            /\ (Held(call.before, k) /\ ~Held(call.table, k))
                  <=> (Held(call.before, k) /\ call.before[k].resetAt <= call.now)
            /\ Held(call.table, k) =>
                  /\ call.table[k] = call.before[k]
                  /\ call.table[k].resetAt > call.now

\* A sweep that found one window expired at this very instant and another
\* still open.
C27_Witness ==
    /\ Swept
    /\ \E k \in Keys : Held(call.before, k) /\ call.before[k].resetAt = call.now
    /\ \E k \in Keys : Held(call.table, k)

\* C28: inside an open window a request changes only the count, by exactly
\* +1, and leaves resetAt unchanged; a denied request is counted too and
\* does not extend the window; the windows of the other identities stay as
\* they were.
C28_OpenWindowOnlyCounts ==
    Counted =>
        /\ OpenBefore(call.last.key) =>
              /\ call.table[call.last.key].count = call.before[call.last.key].count + 1
              /\ call.table[call.last.key].resetAt = call.before[call.last.key].resetAt
        /\ \A k \in Keys : k # call.last.key => call.table[k] = call.before[k]

\* A denied request inside an open window, after the clock moved.
C28_Witness ==
    /\ Counted
    /\ OpenBefore(call.last.key)
    /\ call.last.denied
    /\ call.now > 0


\* ------------------------------------------------- the route, to its response
\* The step that request r takes next: express calls the next middleware,
\* an awaited promise settles (fetchHtml and client.extractIngredients
\* return), the SDK sends its retry, the error middleware runs.
Proceed(r) ==
    \/ Auth(r)
    \/ RateLimitCall(r)
    \/ RateLimitResume(r)
    \/ HandlerStart(r)
    \/ \E o \in FetchOutcomes, c \in ContentOutcomes : FetchReturn(r, o, c)
    \/ \E a \in AiReplies : AiRetry(r, a)
    \/ \E a \in AiReplies, t \in BOOLEAN, c \in AiContents : AiReturn(r, a, t, c)
    \/ ErrorMiddleware(r)

\* The route for requests that follow one another: a request arrives when
\* the one before it has its response.  Every request body, every identity
\* and every outcome of the fetch, the content extraction and the Anthropic
\* call is offered.
NextSerial ==
    \/ \E r \in Slots, u \in {"u1", NoUser}, url \in UrlInputs :
          /\ \A s \in Slots : req[s].pc \in {"idle", "done"}
          /\ Arrive(r, u, url)
    \/ \E r \in Slots : Proceed(r)

\* No request is left waiting for ever: the event loop runs every
\* continuation that is ready, and the fetch and the call of the Anthropic
\* API return.
SpecRoute == Init /\ [][NextSerial]_vars /\ \A r \in Slots : WF_vars(Proceed(r))

\* C29: every request to the endpoint, provided the fetch and the external
\* call return, ends with exactly one HTTP response, the 200 body or one
\* error body, on every path through logging, authentication, rate limiter,
\* handler and error middleware: no path sends two responses and no path
\* ends without one.
C29_ExactlyOneResponse ==
    /\ [](\A r \in Slots :
             /\ req[r].sent <= 1
             /\ req[r].pc = "done" => (req[r].sent = 1 /\ req[r].res.status # 0))
    /\ \A r \in Slots :
          (req[r].pc \notin {"idle", "done"}) ~> (req[r].pc = "done" /\ req[r].sent = 1)

\* A request that went through the handler to the error middleware and was
\* answered once.
C29_Witness ==
    \E r \in Slots :
        /\ req[r].pc = "done"
        /\ req[r].sent = 1
        /\ req[r].thrown.kind # "none"
        /\ "fetch" \in {req[r].stages[i] : i \in 1..Len(req[r].stages)}


\* ------------------------------------------------------ quota and the body
\* the count of the window the store holds for a key, 0 without a window
WindowCount(ents, hp, k) == IF ents[k] = NoEntry THEN 0 ELSE hp[ents[k]].count

\* The request in slot r came with the credentials of a user.
Authenticated(r) == req[r].pc # "idle" /\ req[r].userId # NoUser

\* the stages of the request in slot r that looked at its body
ExaminedBody(r) ==
    \E i \in 1..Len(req[r].stages) : req[r].stages[i] = "url_validation"

\* C30: rate-limit quota is consumed before the request body is examined:
\* every authenticated request increments the count of its identity exactly
\* once, whatever its later outcome, while a request rejected by
\* authentication (401) or carrying no identity changes no window.
C30_QuotaBeforeBody ==
    /\ [](\A r \in Slots :
             /\ req[r].increments <= 1
             /\ ExaminedBody(r) => (req[r].increments = 1 /\ req[r].stages[1] = "rate_limit")
             /\ (Authenticated(r) /\ req[r].pc = "done") => req[r].increments = 1
             /\ (req[r].pc # "idle" /\ ~Authenticated(r)) => req[r].increments = 0
             /\ req[r].res.status = 401 => req[r].increments = 0)
    /\ [][\A u \in Users :
             WindowCount(entries', heap', RateKey(u))
               = WindowCount(entries, heap, RateKey(u))
                 + Cardinality({r \in Slots : /\ req'[r].userId = u
                                              /\ req[r].increments = 0
                                              /\ req'[r].increments = 1})]_vars

====
